---- MODULE Spec2Model ----
(***************************************************************************)
(* Model of the NetBox synchronisation engine of netbox-sync               *)
(* (module/netbox/connection.py, class NetBoxHandler): the three-pass      *)
(* update_instance protocol with its recursive update_object, the status   *)
(* classification of request, and the local record graph it works on.      *)
(***************************************************************************)
EXTENDS Integers, Sequences, FiniteSets, TLC

\* ------------------------------------------------------------------------
\* Bounds of the model
\* ------------------------------------------------------------------------
\* number of non-fatal client errors (4xx other than 403) the server may
\* answer during one run
MaxClientErrors == 2

\* ------------------------------------------------------------------------
\* The record/object model (module.netbox.object_classes, the collaborator
\* described in sections 3 and 6 of the specification)
\* ------------------------------------------------------------------------
None == "None"
NoId == 0

\* NetBoxObject.__subclasses__(): the record types in definition order
subclasses == <<"NBDevice", "NBInterface", "NBIPAddress", "NBInventoryItem">>

Types == {subclasses[n] : n \in 1..Len(subclasses)}

\* schema of each record type: field name -> "scalar" or the referenced type
data_model ==
    [NBDevice        |-> [name |-> "scalar", primary_ip4 |-> "NBIPAddress"],
     NBInterface     |-> [name |-> "scalar", device |-> "NBDevice"],
     NBIPAddress     |-> [address |-> "scalar", assigned_object_id |-> "NBInterface"],
     NBInventoryItem |-> [name |-> "scalar", device |-> "NBDevice"]]

\* the record instances of the local graph and their types
Insts == {"h", "i", "a", "m"}

TypeOf == [h |-> "NBDevice", i |-> "NBInterface", a |-> "NBIPAddress", m |-> "NBInventoryItem"]

\* inventory.get_all_items(cls): the instances of a type, in inventory order
get_all_items ==
    [NBDevice |-> <<"h">>, NBInterface |-> <<"i">>,
     NBIPAddress |-> <<"a">>, NBInventoryItem |-> <<"m">>]

FieldsOf(x) == DOMAIN data_model[TypeOf[x]]

RefField(x) == CHOOSE f \in FieldsOf(x) : data_model[TypeOf[x]][f] \in Types

\* the instance each reference field of the connector-built graph points to:
\* host -> (primary address) -> address -> interface -> host, item -> host
Target == [h |-> "a", a |-> "i", i |-> "h", m |-> "h"]

\* the reference edges of the schema, as (type, referenced type)
SchemaEdges == {<<TypeOf[x], TypeOf[Target[x]]>> : x \in Insts}

RECURSIVE ReachableFrom(_, _, _)
ReachableFrom(rel, t, n) ==
    IF n = 0 THEN {t}
    ELSE LET prev == ReachableFrom(rel, t, n - 1)
         IN  prev \cup {e[2] : e \in {e \in rel : e[1] \in prev}}

Acyclic(rel) ==
    \A e \in rel : e[1] \notin ReachableFrom(rel, e[2], Cardinality(Types))

\* the declared type dependencies a schema may have: any acyclic part of the
\* reference edges
DependencyChoices == {rel \in SUBSET SchemaEdges : Acyclic(rel)}

\* identifiers of the records that exist remotely before the run
ExistingId == [h |-> 1, i |-> 2, a |-> 3, m |-> 4]

FirstFreeId == 5

VARIABLES
    pc,                     \* position of the caller: idle, run, check, done, aborted
    pass,                   \* current pass of update_instance (0 before the run)
    top,                    \* next index of the top-level loop over subclasses
    stack,                  \* call stack of update_object frames
    resolved_dependencies,  \* NetBoxHandler.resolved_dependencies
    declared,               \* declared dependencies of the schema (type, type)
    is_new, nb_id, data, updated_items, unset_items, deleted,  \* per instance
    remote,                 \* the records of the remote system
    nextId,                 \* next identifier the remote system assigns
    errs,                   \* client errors answered so far
    log,                    \* history: every request issued, with its response
    calls,                  \* history: every update_object invocation
    procs,                  \* history: every Upsert-mode processing of an instance
    start,                  \* history: the local graph as the run found it
    reported                \* unresolved fields logged by the final check

\* state of one call of NetBoxHandler.request
VARIABLES
    this_request,           \* the prepared request: method, url, body
    attempts,               \* sends of single_request for the current url
    sends,                  \* history: every send, with what came back
    result,                 \* the value request builds and returns
    pages                   \* the remote system's pages for the GET

\* the variables of update_instance alone
syncVars == <<pass, top, stack, declared, is_new, nb_id, data, updated_items,
              unset_items, remote, nextId, calls, procs, start, reported>>

requestVars == <<this_request, attempts, sends, result, pages>>

\* state of query_current_data
VARIABLES
    use_caching,            \* settings["use_caching"]
    cache_file,             \* the cache file of the queried class on disk
    cache_start,            \* history: the cache file before the call
    nb_remote,              \* the remote system's records of the class
    to_query,               \* netbox_objects_to_query
    visited,                \* the classes of to_query the loop has passed
    cache_this_class,       \* local of the loop
    cached_nb_data,         \* local of the loop
    latest_update,          \* local of the loop
    brief_nb_data,          \* local of the loop
    fetches,                \* history: every request of the call
    inventory,              \* the records handed to inventory.add_object
    loads                   \* history: every completed load of a class

loadVars == <<use_caching, cache_file, cache_start, nb_remote, to_query, visited,
              cache_this_class, cached_nb_data, latest_update, brief_nb_data,
              fetches, inventory, loads>>

\* state of prune_data
VARIABLES
    prune_enabled,          \* settings["prune_enabled"]
    prunable,               \* the classes whose prune attribute is True
    objs,                   \* the inventory: every object's attributes
    objs_start,             \* history: the inventory before the call
    todo,                   \* the objects the loops have still to visit
    interfaces,             \* the interfaces the inner loop has still to visit
    deletes                 \* history: every DELETE request of the call

pruneVars == <<prune_enabled, prunable, objs, objs_start, todo, interfaces, deletes>>

\* state of just_delete_all_the_things
VARIABLES
    iteration,              \* the rounds of the for loop begun so far
    found_objects_to_delete,\* local of the round
    things,                 \* the inventory: every object's tags and deleted flag
    things_todo,            \* the objects the round has still to visit
    alive,                  \* history: the objects not deleted when the round began
    round_count,            \* history: DELETE requests per object in the round
    delete_count,           \* history: DELETE requests per object in the call
    tag_requests,           \* history: the DELETE requests for the tag records
    warned                  \* the warning of the for-else was logged

teardownVars == <<iteration, found_objects_to_delete, things, things_todo, alive,
                  round_count, delete_count, tag_requests, warned>>

\* what update_instance leaves alone
others == <<requestVars, loadVars, pruneVars, teardownVars>>

\* what request leaves alone
exceptRequest == <<syncVars, loadVars, pruneVars, teardownVars>>

\* what query_current_data leaves alone
exceptLoad == <<syncVars, requestVars, pruneVars, teardownVars>>

\* what prune_data leaves alone
exceptPrune == <<syncVars, requestVars, loadVars, teardownVars>>

\* what just_delete_all_the_things leaves alone
exceptTeardown == <<syncVars, requestVars, loadVars, pruneVars>>

vars == <<pc, pass, top, stack, resolved_dependencies, declared, is_new, nb_id,
          data, updated_items, unset_items, deleted, remote, nextId, errs,
          log, calls, procs, start, reported, others>>

\* ------------------------------------------------------------------------
\* Object model operations
\* ------------------------------------------------------------------------
\* NetBoxObject.get_dependencies(): the types the instance's type declares
get_dependencies(x) == {e[2] : e \in {e \in declared : e[1] = TypeOf[x]}}

\* isinstance(value, (NetBoxObject, NBObjectList))
IsObject(value) == value \in Insts

\* value.get_nb_reference(): the remote identifier of the target, NoId if none
get_nb_reference(value) == nb_id[value]

\* key.startswith("primary_ip")
IsPrimaryIp(key) == key \in {"primary_ip4", "primary_ip6"}

\* the JSON value of a field of a request body
ToWire(x, key, value) ==
    IF data_model[TypeOf[x]][key] \in Types
    THEN (IF IsObject(value) THEN get_nb_reference(value) ELSE NoId)
    ELSE value

\* the local value of a field of a remote representation, after
\* resolve_relations() has replaced identifiers by the instances they name
FromWire(x, key, value, ids) ==
    IF data_model[TypeOf[x]][key] \in Types
    THEN (IF value = NoId \/ ~(\E y \in Insts : ids[y] = value) THEN None
          ELSE CHOOSE y \in Insts : ids[y] = value)
    ELSE value

\* ------------------------------------------------------------------------
\* The remote system (NetBox REST API)
\* ------------------------------------------------------------------------
NullFields(x) ==
    [f \in FieldsOf(x) |-> IF data_model[TypeOf[x]][f] \in Types THEN NoId ELSE None]

\* the record after a write with this body has been applied
ServerApply(x, body, id) ==
    [id |-> id,
     fields |-> [f \in FieldsOf(x) |->
                    IF f \in DOMAIN body THEN body[f] ELSE remote[x].fields[f]]]

\* the statuses the remote system may answer to a write
Statuses(req_type, id) ==
    (IF req_type = "POST" THEN {201} ELSE IF id # NoId THEN {200} ELSE {})
        \cup (IF errs < MaxClientErrors THEN {400} ELSE {})
        \cup {403, 500}

\* ------------------------------------------------------------------------
\* NetBoxHandler.request: classification of the response status
\* ------------------------------------------------------------------------
\* a classification that hands the body of a client error to the caller
Classify_ClientErrorResult(status) ==
    IF status = 403 \/ status >= 500 THEN "exit"
    ELSE IF status = 204 THEN "true" ELSE "result"

\* a classification that treats a server error like a client error
Classify_ServerErrorNull(status) ==
    IF status \in {200, 201} THEN "result"
    ELSE IF status = 204 THEN "true"
    ELSE IF status = 403 THEN "exit"
    ELSE "null"

\* "result": the decoded payload is returned, "true": True is returned,
\* "null": None is returned, "exit": do_error_exit ends the process
Classify(status) ==
    IF status = 200 THEN "result"
    ELSE IF status \in {201, 204} THEN (IF status = 204 THEN "true" ELSE "result")
    ELSE IF status = 403 THEN "exit"
    ELSE IF 400 <= status /\ status < 500 THEN "null"
    ELSE IF status >= 500 THEN "exit"
    ELSE "result"

\* ------------------------------------------------------------------------
\* Initial states: the local graph after the cache-backed seeding and the
\* connectors' updates, before update_instance
\* ------------------------------------------------------------------------
\* new: built by a connector, unknown remotely, every field updated;
\* clean: seeded from the remote record, nothing changed;
\* dirty: seeded from the remote record, the connector changed its reference
Kinds == {"new", "clean", "dirty"}

InitRemote(k, x) ==
    IF k[x] = "new" THEN [id |-> NoId, fields |-> NullFields(x)]
    ELSE [id |-> ExistingId[x],
          fields |-> [f \in FieldsOf(x) |->
                        IF f # RefField(x) THEN "old"
                        ELSE IF k[x] = "clean" /\ k[Target[x]] # "new"
                             THEN ExistingId[Target[x]] ELSE NoId]]

InitData(k, x) ==
    [f \in FieldsOf(x) |->
        IF f # RefField(x) THEN (IF k[x] = "new" THEN "new" ELSE "old")
        ELSE IF k[x] = "clean" /\ k[Target[x]] = "new" THEN None ELSE Target[x]]

\* no call of request is modelled on its own
IdleRequest ==
    /\ this_request = None
    /\ attempts = 0
    /\ sends = <<>>
    /\ result = None
    /\ pages = <<>>

\* a cache file that is not there
NoFile == [exists |-> FALSE, readable |-> TRUE, writable |-> TRUE,
           corrupt |-> FALSE, content |-> <<>>]

\* query_current_data is not running
IdleLoad ==
    /\ use_caching = TRUE
    /\ cache_file = NoFile
    /\ cache_start = NoFile
    /\ nb_remote = <<>>
    /\ to_query = <<>>
    /\ visited = 0
    /\ cache_this_class = FALSE
    /\ cached_nb_data = <<>>
    /\ latest_update = 0
    /\ brief_nb_data = [has_results |-> FALSE, results |-> <<>>]
    /\ fetches = <<>>
    /\ inventory = <<>>
    /\ loads = <<>>

\* prune_data is not running
IdlePrune ==
    /\ prune_enabled = FALSE
    /\ prunable = {}
    /\ objs = <<>>
    /\ objs_start = <<>>
    /\ todo = <<>>
    /\ interfaces = <<>>
    /\ deletes = <<>>

\* just_delete_all_the_things is not running
IdleTeardown ==
    /\ iteration = 0
    /\ found_objects_to_delete = FALSE
    /\ things = <<>>
    /\ things_todo = <<>>
    /\ alive = {}
    /\ round_count = <<>>
    /\ delete_count = <<>>
    /\ tag_requests = <<>>
    /\ warned = FALSE

Init ==
    \E k \in [Insts -> Kinds], dep \in DependencyChoices :
        /\ k["m"] # "new"
        /\ IdleRequest
        /\ IdleLoad
        /\ IdlePrune
        /\ IdleTeardown
        /\ pc = "idle"
        /\ pass = 0
        /\ top = 1
        /\ stack = <<>>
        /\ resolved_dependencies = {}
        /\ declared = dep
        /\ is_new = [x \in Insts |-> k[x] = "new"]
        /\ nb_id = [x \in Insts |-> IF k[x] = "new" THEN NoId ELSE ExistingId[x]]
        /\ data = [x \in Insts |-> InitData(k, x)]
        /\ updated_items = [x \in Insts |->
                              IF k[x] = "new" THEN FieldsOf(x)
                              ELSE IF k[x] = "dirty" THEN {RefField(x)} ELSE {}]
        /\ unset_items = [x \in Insts |-> {}]
        /\ deleted = [x \in Insts |-> FALSE]
        /\ remote = [x \in Insts |-> InitRemote(k, x)]
        /\ nextId = FirstFreeId
        /\ errs = 0
        /\ log = <<>>
        /\ calls = <<>>
        /\ procs = <<>>
        /\ start = [is_new |-> is_new, updated_items |-> updated_items,
                    unset_items |-> unset_items]
        /\ reported = {}

\* ------------------------------------------------------------------------
\* Connector steps that precede the run
\* ------------------------------------------------------------------------
\* vmware connector: devices_vms.unset_attribute(f"primary_ip{ip_version}")
\* for a device whose primary address is claimed by another device
unset_attribute ==
    /\ pc = "idle"
    /\ data["h"]["primary_ip4"] \in Insts
    /\ ~is_new[data["h"]["primary_ip4"]]
    /\ "primary_ip4" \notin unset_items["h"]
    /\ unset_items' = [unset_items EXCEPT !["h"] = @ \cup {"primary_ip4"}]
    /\ UNCHANGED <<pc, pass, top, stack, resolved_dependencies, declared, is_new,
                   nb_id, data, updated_items, deleted, remote, nextId, errs,
                   log, calls, procs, start, reported, others>>

\* check_redfish importer: an inventory item no longer in the inventory file
\* is flagged, current_inventory_item.deleted = True
mark_item_deleted ==
    /\ pc = "idle"
    /\ ~deleted["m"]
    /\ deleted' = [deleted EXCEPT !["m"] = TRUE]
    /\ UNCHANGED <<pc, pass, top, stack, resolved_dependencies, declared, is_new,
                   nb_id, data, updated_items, unset_items, remote, nextId, errs,
                   log, calls, procs, start, reported, others>>

\* ------------------------------------------------------------------------
\* NetBoxHandler.update_instance and NetBoxHandler.update_object
\* ------------------------------------------------------------------------
Frame(cls, unset, last_run) ==
    [cls |-> cls, unset |-> unset, last_run |-> last_run, idx |-> 1]

Call(cls, unset, last_run) ==
    [pass |-> pass, cls |-> cls, unset |-> unset, last_run |-> last_run,
     depth |-> Len(stack) + 1]

TopFrame == stack[Len(stack)]

\* the frame is inside its loop over the instances of its type
InLoop == Len(stack) > 0 /\ TopFrame.idx <= Len(get_all_items[TopFrame.cls])

this_object == get_all_items[TopFrame.cls][TopFrame.idx]

\* a resolver that leaves every dependency aside
Unresolved_Skips == {}

\* a resolver that does not consult resolved_dependencies
Unresolved_NoMemo == get_dependencies(this_object)

\* dependencies of this_object that are not yet in resolved_dependencies
Unresolved == get_dependencies(this_object) \ resolved_dependencies

\* the loop body is done with this_object: continue with the next one
Advance == [stack EXCEPT ![Len(stack)].idx = @ + 1]

\* the local graph at the start of the run
Snapshot ==
    [is_new |-> is_new, updated_items |-> updated_items, unset_items |-> unset_items]

\* update_instance, lines 693-697: the run starts with the first pass
StartRun ==
    /\ pc = "idle"
    /\ pc' = "run"
    /\ pass' = 1
    /\ top' = 1
    /\ resolved_dependencies' = {}
    /\ UNCHANGED <<stack, declared, is_new, nb_id, data, updated_items,
                   unset_items, deleted, remote, nextId, errs, log, calls,
                   procs, reported, others>>
    /\ start' = Snapshot

\* update_instance, line 699: only the first pass calls with unset=True
PassUnset(p) == p = 1

\* a third pass that forgets the flag
PassLastRun_Never(p) == FALSE

\* update_instance, line 711: only the third pass calls with last_run=True
PassLastRun(p) == p = 3

\* update_instance, the three loops over NetBoxObject.__subclasses__():
\* the next type is handed to update_object with the flags of the pass
CallTopLevel ==
    /\ pc = "run"
    /\ stack = <<>>
    /\ top <= Len(subclasses)
    /\ stack' = <<Frame(subclasses[top], PassUnset(pass), PassLastRun(pass))>>
    /\ calls' = Append(calls, Call(subclasses[top], PassUnset(pass), PassLastRun(pass)))
    /\ top' = top + 1
    /\ UNCHANGED <<pc, pass, resolved_dependencies, declared, is_new, nb_id,
                   data, updated_items, unset_items, deleted, remote, nextId,
                   errs, log, procs, reported, start, others>>

\* update_object, lines 584-588: a dependency of this_object that is not in
\* resolved_dependencies is synchronized first, by update_object(dependency)
ResolveDependency ==
    /\ pc = "run"
    /\ InLoop
    /\ Unresolved # {}
    /\ LET dependency == CHOOSE d \in Unresolved : TRUE
       IN  /\ stack' = Append(stack, Frame(dependency, FALSE, FALSE))
           /\ calls' = Append(calls, Call(dependency, FALSE, FALSE))
    /\ UNCHANGED <<pc, pass, top, resolved_dependencies, declared, is_new,
                   nb_id, data, updated_items, unset_items, deleted, remote,
                   nextId, errs, log, procs, reported, start, others>>

\* update_object, lines 679-680: the loop is over, the type is added to
\* resolved_dependencies and the call returns
ReturnFromUpdateObject ==
    /\ pc = "run"
    /\ Len(stack) > 0
    /\ ~InLoop
    /\ resolved_dependencies' = resolved_dependencies \cup {TopFrame.cls}
    /\ stack' = SubSeq(stack, 1, Len(stack) - 1)
    /\ UNCHANGED <<pc, pass, top, declared, is_new, nb_id, data, updated_items,
                   unset_items, deleted, remote, nextId, errs, log, calls,
                   procs, reported, start, others>>

\* update_instance, lines 701-711: the next pass starts with an empty
\* resolved_dependencies
NextPass ==
    /\ pc = "run"
    /\ stack = <<>>
    /\ top > Len(subclasses)
    /\ pass < 3
    /\ pass' = pass + 1
    /\ top' = 1
    /\ resolved_dependencies' = {}
    /\ UNCHANGED <<pc, stack, declared, is_new, nb_id, data, updated_items,
                   unset_items, deleted, remote, nextId, errs, log, calls,
                   procs, reported, start, others>>

\* a check that finds nothing
UnresolvedItems_None(x) == {}

\* the updated fields of x that still hold a reference without identifier
UnresolvedItems(x) ==
    {key \in updated_items[x] \cap DOMAIN data[x] :
        IsObject(data[x][key]) /\ get_nb_reference(data[x][key]) = NoId}

\* update_instance, lines 713-721: after the third pass every updated field
\* that still holds an unresolved reference is logged
FinalCheck ==
    /\ pc = "run"
    /\ stack = <<>>
    /\ top > Len(subclasses)
    /\ pass = 3
    /\ reported' = UNION {{<<x, key>> : key \in UnresolvedItems(x)} : x \in Insts}
    /\ pc' = "done"
    /\ UNCHANGED <<pass, top, stack, resolved_dependencies, declared, is_new,
                   nb_id, data, updated_items, unset_items, deleted, remote,
                   nextId, errs, log, calls, procs, start, others>>

\* a request and its response, as recorded in the history
Request(req_type, x, id, body, status) ==
    [pass |-> pass, unset |-> TopFrame.unset, last_run |-> TopFrame.last_run,
     depth |-> Len(stack), method |-> req_type, inst |-> x, id |-> id,
     body |-> body, status |-> status]

\* this_object.update(data=returned_object_data, read_from_netbox=True)
\* followed by resolve_relations(): the local data of x after the merge
MergedData(x, record, ids) ==
    [f \in FieldsOf(x) |-> FromWire(x, f, record.fields[f], ids)]

\* a body that clears every field of the record
unset_data_WholeRecord(x) ==
    [unset_item \in FieldsOf(x) |->
        IF data_model[TypeOf[x]][unset_item] \in Types THEN NoId ELSE None]

\* update_object, lines 596-603: the body of the Unset PATCH
unset_data(x) ==
    [unset_item \in unset_items[x] |->
        IF data_model[TypeOf[x]][unset_item] \in Types THEN NoId ELSE None]

\* update_object, lines 591-594: Unset mode, nothing to unset
UnsetSkip ==
    /\ pc = "run"
    /\ InLoop
    /\ Unresolved = {}
    /\ TopFrame.unset
    /\ unset_items[this_object] = {}
    /\ stack' = Advance
    /\ UNCHANGED <<pc, pass, top, resolved_dependencies, declared, is_new,
                   nb_id, data, updated_items, unset_items, deleted, remote,
                   nextId, errs, log, calls, procs, start, reported, others>>

\* update_object, lines 596-620: Unset mode, one PATCH clears the fields of
\* unset_items and the response is merged back
UnsetPatch ==
    /\ pc = "run"
    /\ InLoop
    /\ Unresolved = {}
    /\ TopFrame.unset
    /\ unset_items[this_object] # {}
    /\ LET x == this_object
           id == nb_id[x]
           body == unset_data(x)
       IN  \E status \in Statuses("PATCH", id) :
             LET outcome == Classify(status)
                 record == ServerApply(x, body, id)
             IN  /\ log' = Append(log, Request("PATCH", x, id, body, status))
                 /\ pc' = IF outcome = "exit" THEN "aborted" ELSE pc
                 /\ stack' = IF outcome = "exit" THEN stack ELSE Advance
                 /\ errs' = IF outcome = "null" THEN errs + 1 ELSE errs
                 /\ IF outcome = "result"
                    THEN /\ remote' = [remote EXCEPT ![x] = record]
                         /\ is_new' = [is_new EXCEPT ![x] = FALSE]
                         /\ nb_id' = [nb_id EXCEPT ![x] = record.id]
                         /\ data' = [data EXCEPT ![x] = MergedData(x, record, nb_id')]
                         /\ updated_items' = [updated_items EXCEPT ![x] = {}]
                         /\ unset_items' = [unset_items EXCEPT ![x] = {}]
                    ELSE UNCHANGED <<remote, is_new, nb_id, data, updated_items,
                                     unset_items>>
    /\ UNCHANGED <<pass, top, resolved_dependencies, declared, deleted, nextId,
                   calls, procs, reported, start, others>>

\* a selection that takes every field of data
UpdatedKeys_All(x) == DOMAIN data[x]

\* update_object, lines 625-626: the fields of data that are in updated_items
UpdatedKeys(x) == updated_items[x] \cap DOMAIN data[x]

\* a deferral that keeps the primary address back in the last run too
Deferred_AlwaysPrimary(x, last_run) ==
    {key \in UpdatedKeys(x) :
        /\ IsObject(data[x][key])
        /\ \/ get_nb_reference(data[x][key]) = NoId
           \/ IsPrimaryIp(key)}

\* a deferral without the primary-address rule
Deferred_NoPrimaryRule(x, last_run) ==
    {key \in UpdatedKeys(x) :
        /\ IsObject(data[x][key])
        /\ get_nb_reference(data[x][key]) = NoId}

\* a deferral that does not look at the target's identifier
Deferred_IgnoresMissingId(x, last_run) ==
    {key \in UpdatedKeys(x) :
        /\ IsObject(data[x][key])
        /\ IsPrimaryIp(key) /\ last_run = FALSE}

\* update_object, lines 628-634: the updated fields put into
\* unresolved_dependency_data
Deferred(x, last_run) ==
    {key \in UpdatedKeys(x) :
        /\ IsObject(data[x][key])
        /\ \/ get_nb_reference(data[x][key]) = NoId
           \/ (IsPrimaryIp(key) /\ last_run = FALSE)}

\* update_object, lines 635-639: the body of the write
data_to_patch(x, last_run) ==
    [key \in UpdatedKeys(x) \ Deferred(x, last_run) |-> ToWire(x, key, data[x][key])]

\* an object that forgets the fields it is given back
GivenBack_Forgets(items, unresolved_dependency_data) == items \ unresolved_dependency_data

\* an object that keeps only the fields it is given back
GivenBack_Replaces(items, unresolved_dependency_data) == unresolved_dependency_data

\* update_object, lines 672-675: this_object.update(data=
\* unresolved_dependency_data) marks the deferred fields as updated again
GivenBack(items, unresolved_dependency_data) == items \cup unresolved_dependency_data

\* a write that is always a creation
RequestType_AlwaysPost(x) == "POST"

\* update_object, lines 646-654: POST for a new object, PATCH otherwise
RequestType(x) == IF is_new[x] = FALSE THEN "PATCH" ELSE "POST"

\* one Upsert-mode processing of an instance, as recorded in the history
Processing(x, last_run) ==
    [pass |-> pass, inst |-> x, last_run |-> last_run, depth |-> Len(stack),
     updated |-> UpdatedKeys(x),
     deferred |-> Deferred(x, last_run),
     unresolved |-> UnresolvedItems(x),
     sent |-> DOMAIN data_to_patch(x, last_run)]

\* update_object, lines 622-677 with an empty data_to_patch: no request is
\* issued, the deferred fields are given back to the object
UpsertNoRequest ==
    /\ pc = "run"
    /\ InLoop
    /\ Unresolved = {}
    /\ ~TopFrame.unset
    /\ LET x == this_object
           unresolved_dependency_data == Deferred(x, TopFrame.last_run)
       IN  /\ DOMAIN data_to_patch(x, TopFrame.last_run) = {}
           /\ updated_items' = [updated_items EXCEPT ![x] =
                                  GivenBack(@, unresolved_dependency_data)]
           /\ procs' = Append(procs, Processing(x, TopFrame.last_run))
    /\ stack' = Advance
    /\ UNCHANGED <<pc, pass, top, resolved_dependencies, declared, is_new,
                   nb_id, data, unset_items, deleted, remote, nextId, errs,
                   log, calls, reported, start, others>>

\* update_object, lines 622-677 with a non-empty data_to_patch: a POST for a
\* new object, a PATCH otherwise; the response is merged back and the
\* deferred fields are given back to the object
UpsertRequest ==
    /\ pc = "run"
    /\ InLoop
    /\ Unresolved = {}
    /\ ~TopFrame.unset
    /\ LET x == this_object
           last_run == TopFrame.last_run
           unresolved_dependency_data == Deferred(x, last_run)
           body == data_to_patch(x, last_run)
           req_type == RequestType(x)
           id == IF req_type = "PATCH" THEN nb_id[x] ELSE NoId
       IN  /\ DOMAIN body # {}
           /\ \E status \in Statuses(req_type, id) :
                LET outcome == Classify(status)
                    record == ServerApply(x, body, IF req_type = "POST" THEN nextId ELSE id)
                    merged == MergedData(x, record, nb_id')
                IN  /\ log' = Append(log, Request(req_type, x, id, body, status))
                    /\ procs' = Append(procs, Processing(x, last_run))
                    /\ pc' = IF outcome = "exit" THEN "aborted" ELSE pc
                    /\ stack' = IF outcome = "exit" THEN stack ELSE Advance
                    /\ errs' = IF outcome = "null" THEN errs + 1 ELSE errs
                    /\ IF outcome = "result"
                       THEN /\ remote' = [remote EXCEPT ![x] = record]
                            /\ nextId' = IF req_type = "POST" THEN nextId + 1 ELSE nextId
                            /\ is_new' = [is_new EXCEPT ![x] = FALSE]
                            /\ nb_id' = [nb_id EXCEPT ![x] = record.id]
                            /\ data' = [data EXCEPT ![x] =
                                          [f \in FieldsOf(x) |->
                                              IF f \in unresolved_dependency_data
                                              THEN data[x][f] ELSE merged[f]]]
                            /\ updated_items' = [updated_items EXCEPT ![x] =
                                                   GivenBack({}, unresolved_dependency_data)]
                            /\ unset_items' = [unset_items EXCEPT ![x] = {}]
                       ELSE /\ updated_items' = [updated_items EXCEPT ![x] =
                                                   GivenBack(@, unresolved_dependency_data)]
                            /\ UNCHANGED <<remote, nextId, is_new, nb_id, data,
                                           unset_items>>
    /\ UNCHANGED <<pass, top, resolved_dependencies, declared, deleted, calls,
                   reported, start, others>>

Next ==
    \/ unset_attribute
    \/ mark_item_deleted
    \/ StartRun
    \/ CallTopLevel
    \/ ResolveDependency
    \/ UnsetSkip
    \/ UnsetPatch
    \/ UpsertNoRequest
    \/ UpsertRequest
    \/ ReturnFromUpdateObject
    \/ NextPass
    \/ FinalCheck

Spec == Init /\ [][Next]_vars

\* the one thread of the program runs on until update_instance returns or
\* do_error_exit ends the process
SpecFair == Spec /\ WF_vars(Next)

\* ========================================================================
\* NetBoxHandler.request and NetBoxHandler.single_request on their own
\* ========================================================================
\* settings["max_retry_attempts"]
max_retry_attempts == 4

\* bounds of the paginated collection
MaxPages == 3

MaxPageSize == 2

\* a send that ended in ConnectionError or ReadTimeout has no status
TransportFailure == 0

\* update_instance is not running
IdleSync ==
    /\ pass = 0
    /\ top = 1
    /\ stack = <<>>
    /\ declared = {}
    /\ is_new = [x \in Insts |-> FALSE]
    /\ nb_id = ExistingId
    /\ data = [x \in Insts |-> [f \in FieldsOf(x) |-> None]]
    /\ updated_items = [x \in Insts |-> {}]
    /\ unset_items = [x \in Insts |-> {}]
    /\ remote = [x \in Insts |-> [id |-> ExistingId[x], fields |-> NullFields(x)]]
    /\ nextId = FirstFreeId
    /\ calls = <<>>
    /\ procs = <<>>
    /\ start = [is_new |-> is_new, updated_items |-> updated_items,
                unset_items |-> unset_items]
    /\ reported = {}

\* the pages of a collection: page k holds the results 10k+1, 10k+2, ...
PagesOf(sizes) == [k \in 1..Len(sizes) |-> [j \in 1..sizes[k] |-> 10 * k + j]]

PageSizes == UNION {[1..n -> 0..MaxPageSize] : n \in 1..MaxPages}

\* the statuses the remote system may answer to a request
RequestStatuses(req_type) ==
    (CASE req_type = "POST" -> {201}
       [] req_type = "DELETE" -> {204}
       [] OTHER -> {200})
    \cup {400, 403, 404, 500, 503}

\* the decoded body of a response: a page of the collection for a good GET,
\* a single representation for a good write, an error detail otherwise
ResponseJson(req, status) ==
    IF status = 200 /\ req.method = "GET"
    THEN [has_results |-> TRUE, results |-> pages[req.url],
          next |-> IF req.url < Len(pages) THEN req.url + 1 ELSE 0]
    ELSE [has_results |-> FALSE, results |-> <<>>, next |-> 0]

\* a loop that allows one more attempt
LoopExhausted_OneMore(n) == n > max_retry_attempts

\* single_request, line 357: for _ in range(self.max_retry_attempts) has run
\* n times
LoopExhausted(n) == n >= max_retry_attempts

\* a pagination that keeps only the latest page
Extend_Overwrite(results, more) == more

\* request, line 301: result["results"].extend(...)
Extend(results, more) == results \o more

Sent(status) == [request |-> this_request, status |-> status]

InitRequest ==
    \E req_type \in {"GET", "POST", "PATCH", "DELETE"}, sizes \in PageSizes :
        /\ req_type # "GET" => sizes = <<0>>
        /\ pc = "first"
        /\ this_request = [method |-> req_type, url |-> 1,
                           body |-> IF req_type \in {"POST", "PATCH"} THEN "data" ELSE None]
        /\ pages = IF req_type = "GET" THEN PagesOf(sizes) ELSE <<>>
        /\ attempts = 0
        /\ sends = <<>>
        /\ result = None
        /\ log = <<>>
        /\ errs = 0
        /\ resolved_dependencies = {}
        /\ deleted = [x \in Insts |-> FALSE]
        /\ IdleSync
        /\ IdleLoad
        /\ IdlePrune
        /\ IdleTeardown

\* single_request, lines 366-375: the send raises a transport error; the
\* loop tries again, and do_error_exit ends the process after the last try
SendFails ==
    /\ pc \in {"first", "next"}
    /\ ~LoopExhausted(attempts)
    /\ sends' = Append(sends, Sent(TransportFailure))
    /\ attempts' = attempts + 1
    /\ pc' = IF LoopExhausted(attempts + 1) THEN "aborted" ELSE pc
    /\ UNCHANGED <<this_request, result, pages, log, errs, resolved_dependencies,
                   deleted, exceptRequest>>

\* request, lines 285-335: the first response arrives and is classified; a
\* good GET with a next locator goes on to the following page
FirstResponse ==
    /\ pc = "first"
    /\ ~LoopExhausted(attempts)
    /\ \E status \in RequestStatuses(this_request.method) :
         LET json == ResponseJson(this_request, status)
             outcome == Classify(status)
             paginate == status = 200 /\ this_request.method = "GET" /\ json.next # 0
         IN  /\ sends' = Append(sends, Sent(status))
             /\ result' = CASE outcome = "result" -> [kind |-> "payload", results |-> json.results]
                            [] outcome = "true" -> [kind |-> "true", results |-> <<>>]
                            [] outcome = "null" -> [kind |-> "null", results |-> <<>>]
                            [] OTHER -> result
             /\ pc' = IF outcome = "exit" THEN "aborted"
                      ELSE IF paginate THEN "next" ELSE "returned"
             /\ this_request' = IF paginate THEN [this_request EXCEPT !.url = json.next]
                                ELSE this_request
             /\ attempts' = IF paginate THEN 0 ELSE attempts + 1
    /\ UNCHANGED <<pages, log, errs, resolved_dependencies, deleted, exceptRequest>>

\* request, lines 296-301: the response to a following page arrives; its
\* results are appended without a look at its status, and a body without
\* results makes extend() raise
NextResponse ==
    /\ pc = "next"
    /\ ~LoopExhausted(attempts)
    /\ \E status \in RequestStatuses(this_request.method) :
         LET json == ResponseJson(this_request, status)
         IN  /\ sends' = Append(sends, Sent(status))
             /\ IF ~json.has_results
                THEN /\ pc' = "crashed"
                     /\ UNCHANGED <<result, this_request, attempts>>
                ELSE /\ result' = [result EXCEPT !.results = Extend(@, json.results)]
                     /\ pc' = IF json.next # 0 THEN "next" ELSE "returned"
                     /\ this_request' = IF json.next # 0
                                        THEN [this_request EXCEPT !.url = json.next]
                                        ELSE this_request
                     /\ attempts' = IF json.next # 0 THEN 0 ELSE attempts + 1
    /\ UNCHANGED <<pages, log, errs, resolved_dependencies, deleted, exceptRequest>>

NextRequest ==
    \/ SendFails
    \/ FirstResponse
    \/ NextResponse

SpecRequest == InitRequest /\ [][NextRequest]_vars

\* ========================================================================
\* NetBoxHandler.query_current_data on its own
\* ========================================================================
\* bounds of the records of the queried class
MaxId == 2

MaxTime == 2

\* a record without last_updated
NoTime == 0

\* the class whose records are loaded
QueriedClass == "NBDevice"

RECURSIVE ListOf(_, _)
\* the records with the identifiers ids, in identifier order
ListOf(ids, last_updated) ==
    IF ids = {} THEN <<>>
    ELSE LET m == CHOOSE x \in ids : \A y \in ids : x <= y
         IN  <<[id |-> m, last_updated |-> last_updated[m]]>>
             \o ListOf(ids \ {m}, last_updated)

RecordLists ==
    {ListOf(ids, last_updated) :
        ids \in SUBSET (1..MaxId), last_updated \in [1..MaxId -> NoTime..MaxTime]}

CacheFiles ==
    {NoFile}
    \cup {[exists |-> TRUE, readable |-> r, writable |-> w, corrupt |-> d,
           content |-> c] :
             r \in BOOLEAN, w \in BOOLEAN, d \in BOOLEAN, c \in RecordLists}
    \cup {[NoFile EXCEPT !.writable = FALSE]}

\* what the remote system may answer to a fetch
LoadResponses ==
    {[status |-> st, has_results |-> st = 200] : st \in {200, 400, 403, 404, 500}}
    \cup {[status |-> 200, has_results |-> FALSE]}
    \cup {[status |-> TransportFailure, has_results |-> FALSE]}

\* what request gives for a fetch: single_request ends the process when
\* every attempt failed (line 375), an answer is classified by its status
Answer(response) ==
    IF response.status = TransportFailure THEN "exit" ELSE Classify(response.status)

IdsOf(records) == {records[k].id : k \in 1..Len(records)}

TimesOf(records) ==
    {records[k].last_updated : k \in 1..Len(records)} \ {NoTime}

\* lines 448-452: sorted(latest_update_list)[-1]
LatestOf(records) ==
    IF TimesOf(records) = {} THEN NoTime
    ELSE CHOOSE t \in TimesOf(records) : \A u \in TimesOf(records) : u <= t

\* the remote system's answer to last_updated__gte
UpdatedSince(since) ==
    SelectSeq(nb_remote, LAMBDA r : r.last_updated # NoTime /\ r.last_updated >= since)

\* a reader that takes whatever the damaged file last held
PickleLoad_IgnoresCorrupt ==
    IF cache_file.exists THEN cache_file.content ELSE <<>>

\* lines 438-444: pickle.load, any exception leaving the empty list; corrupt
\* marks a file whose bytes no longer unpickle to the content last written
PickleLoad ==
    IF cache_file.exists /\ ~cache_file.corrupt THEN cache_file.content ELSE <<>>

\* a merge that keeps the cached records the brief list no longer has
Keep_IgnoresBrief(record, existing, changed) == record.id \notin changed

\* line 515: the cached record goes into the result
Keep(record, existing, changed) ==
    record.id \in existing /\ record.id \notin changed

RECURSIVE Kept(_, _, _)
\* lines 513-516: the loop over cached_nb_data
Kept(cached, existing, changed) ==
    IF cached = <<>> THEN <<>>
    ELSE (IF Keep(Head(cached), existing, changed) THEN <<Head(cached)>> ELSE <<>>)
         \o Kept(Tail(cached), existing, changed)

\* lines 510-518: the merge of cache, brief list and delta
Merged(cached, brief, updated) ==
    Kept(cached, IdsOf(brief), IdsOf(updated)) \o updated

\* a write-back that stores what was read from the cache
Dumped_Cached(nb_objects) == cached_nb_data

\* line 522: what pickle.dump writes
Dumped(nb_objects) == nb_objects

\* lines 520-526: open(cache_file, "wb") and pickle.dump, a failure only logged
WriteBack(nb_objects) ==
    IF use_caching /\ cache_file.writable
    THEN [exists |-> TRUE, readable |-> cache_file.readable,
          writable |-> TRUE, corrupt |-> FALSE, content |-> Dumped(nb_objects)]
    ELSE cache_file

\* a cache the code trusts although it may not write it
Usable_IgnoresWritable ==
    /\ use_caching
    /\ ~(cache_file.exists /\ ~cache_file.readable)

\* lines 424-433: cache_this_class after the access checks
Usable ==
    /\ use_caching
    /\ ~(cache_file.exists /\ ~cache_file.readable)
    /\ ~(cache_file.exists /\ ~cache_file.writable)

\* the class the loop is at
nb_object_class == to_query[visited + 1]

Fetched(kind, since, response) ==
    [cls |-> nb_object_class, kind |-> kind, since |-> since, status |-> response.status]

\* a handler that takes no class for retrieved
Retrieved_Never(cls) == FALSE

\* line 414: nb_object_class in self.resolved_dependencies
Retrieved(cls) == cls \in resolved_dependencies

\* the handler before a load, with the classes in resolved_dependencies
LoadFrom(resolved) ==
    \E caching \in BOOLEAN, file \in CacheFiles, records \in RecordLists, n \in 1..2 :
        /\ pc = "load"
        /\ use_caching = caching
        /\ cache_file = file
        /\ cache_start = file
        /\ nb_remote = records
        /\ to_query = [k \in 1..n |-> QueriedClass]
        /\ visited = 0
        /\ cache_this_class = FALSE
        /\ cached_nb_data = <<>>
        /\ latest_update = NoTime
        /\ brief_nb_data = [has_results |-> FALSE, results |-> <<>>]
        /\ fetches = <<>>
        /\ inventory = <<>>
        /\ loads = <<>>
        /\ log = <<>>
        /\ errs = 0
        /\ resolved_dependencies = resolved
        /\ deleted = [x \in Insts |-> FALSE]
        /\ IdleSync
        /\ IdleRequest
        /\ IdlePrune
        /\ IdleTeardown

\* line 67: resolved_dependencies is empty after construction
InitLoad == LoadFrom({})

\* a load by a handler that has worked before: resolved_dependencies may
\* hold the class, from an earlier load (line 534) or from a pass of
\* update_instance that processed it (line 680)
InitReload == \E resolved \in SUBSET {QueriedClass} : LoadFrom(resolved)

\* lines 413-415: the class was already retrieved
SkipResolved ==
    /\ pc = "load"
    /\ visited < Len(to_query)
    /\ Retrieved(nb_object_class)
    /\ visited' = visited + 1
    /\ UNCHANGED <<pc, use_caching, cache_file, cache_start, nb_remote, to_query,
                   cache_this_class, cached_nb_data, latest_update, brief_nb_data,
                   fetches, inventory, loads, log, errs, resolved_dependencies,
                   deleted, exceptLoad>>

\* lines 417-474: the cache of the class is read and the kind of fetch chosen
ReadCache ==
    /\ pc = "load"
    /\ visited < Len(to_query)
    /\ ~Retrieved(nb_object_class)
    /\ LET cached == IF Usable THEN PickleLoad ELSE <<>>
       IN  /\ cached_nb_data' = cached
           /\ latest_update' = LatestOf(cached)
           /\ cache_this_class' = (Usable /\ ~(Len(cached) > 0 /\ LatestOf(cached) = NoTime))
           /\ pc' = IF LatestOf(cached) = NoTime THEN "full" ELSE "brief"
    /\ brief_nb_data' = [has_results |-> FALSE, results |-> <<>>]
    /\ UNCHANGED <<use_caching, cache_file, cache_start, nb_remote, to_query,
                   visited, fetches, inventory, loads, log, errs, resolved_dependencies,
                   deleted, exceptLoad>>

\* lines 499-534: the result set is written back, added to the inventory and
\* the class marked as retrieved
Complete(kind, nb_objects, brief, updated) ==
    /\ cache_file' = WriteBack(nb_objects)
    /\ inventory' = inventory \o nb_objects
    /\ loads' = Append(loads, [cls |-> nb_object_class, kind |-> kind,
                               result |-> nb_objects,
                               cached |-> cached_nb_data, brief |-> brief,
                               updated |-> updated])
    /\ resolved_dependencies' = resolved_dependencies \cup {nb_object_class}
    /\ visited' = visited + 1
    /\ pc' = "load"

\* an end that leaves the cache file opened for writing and empty
Abandon_Truncates(how) ==
    /\ pc' = how
    /\ cache_file' = [cache_file EXCEPT !.exists = TRUE, !.content = <<>>]
    /\ UNCHANGED <<inventory, loads, resolved_dependencies, visited>>

\* the load ends without a result: do_error_exit, or the exception raised by
\* .get on the None that request returned
Abandon(how) ==
    /\ pc' = how
    /\ UNCHANGED <<cache_file, inventory, loads, resolved_dependencies, visited>>

\* lines 476-482 and 499-534: the full fetch
FetchFull ==
    /\ pc = "full"
    /\ \E response \in LoadResponses :
         /\ fetches' = Append(fetches, Fetched("full", NoTime, response))
         /\ CASE Answer(response) = "exit" -> Abandon("aborted")
              [] Answer(response) = "null" -> Abandon("crashed")
              [] OTHER -> IF response.has_results
                          THEN Complete("full", nb_remote, <<>>, <<>>)
                          ELSE Abandon("aborted")
    /\ UNCHANGED <<use_caching, cache_start, nb_remote, to_query, cache_this_class,
                   cached_nb_data, latest_update, brief_nb_data, log, errs,
                   deleted, exceptLoad>>

\* lines 486-489: the brief list
FetchBrief ==
    /\ pc = "brief"
    /\ \E response \in LoadResponses :
         /\ fetches' = Append(fetches, Fetched("brief", NoTime, response))
         /\ CASE Answer(response) = "exit" ->
                   /\ Abandon("aborted")
                   /\ UNCHANGED brief_nb_data
              [] Answer(response) = "null" ->
                   /\ Abandon("crashed")
                   /\ UNCHANGED brief_nb_data
              [] OTHER ->
                   /\ brief_nb_data' =
                        [has_results |-> response.has_results,
                         results |-> IF response.has_results THEN nb_remote ELSE <<>>]
                   /\ pc' = "delta"
                   /\ UNCHANGED <<cache_file, inventory, loads,
                                  resolved_dependencies, visited>>
    /\ UNCHANGED <<use_caching, cache_start, nb_remote, to_query, cache_this_class,
                   cached_nb_data, latest_update, log, errs, deleted, exceptLoad>>

\* lines 491-534: the delta fetch and the merge
FetchDelta ==
    /\ pc = "delta"
    /\ \E response \in LoadResponses :
         /\ fetches' = Append(fetches, Fetched("delta", latest_update, response))
         /\ CASE Answer(response) = "exit" -> Abandon("aborted")
              [] Answer(response) = "null" -> Abandon("crashed")
              [] OTHER ->
                   IF brief_nb_data.has_results /\ response.has_results
                   THEN Complete("incremental",
                                 Merged(cached_nb_data, brief_nb_data.results,
                                        UpdatedSince(latest_update)),
                                 brief_nb_data.results, UpdatedSince(latest_update))
                   ELSE Abandon("aborted")
    /\ UNCHANGED <<use_caching, cache_start, nb_remote, to_query, cache_this_class,
                   cached_nb_data, latest_update, brief_nb_data, log, errs,
                   deleted, exceptLoad>>

NextLoad ==
    \/ SkipResolved
    \/ ReadCache
    \/ FetchFull
    \/ FetchBrief
    \/ FetchDelta

SpecLoad == InitLoad /\ [][NextLoad]_vars

SpecReload == InitReload /\ [][NextLoad]_vars

\* ========================================================================
\* NetBoxHandler.prune_data on its own
\* ========================================================================
\* settings["prune_delay_in_days"]
prune_delay_in_days == 30

\* bound: the interfaces of the device
MaxChildren == 2

\* timedelta.days counts whole days of 86400 seconds
SecondsPerDay == 86400

\* the inventory of the call: one device and its interfaces
Parent == 0

Children == 1..MaxChildren

Objs == {Parent} \cup Children

ClassOf(x) == IF x = Parent THEN "NBDevice" ELSE "NBInterface"

\* the tag of orphaned objects and the tag of a disabled source
orphaned_tag == "NetBox-synced: Orphaned"

source_tags_of_disabled_sources == {"Source: disabled"}

\* seconds between data.last_updated and now, around the prune delay
Ages ==
    {-1,
     (prune_delay_in_days - 1) * SecondsPerDay + (SecondsPerDay - 1),
     prune_delay_in_days * SecondsPerDay,
     (prune_delay_in_days + 1) * SecondsPerDay}

\* data.last_updated is missing, does not parse, or parses
Stamps ==
    {[last_updated |-> "none", age |-> 0], [last_updated |-> "bad", age |-> 0]}
    \cup {[last_updated |-> "ok", age |-> t] : t \in Ages}

Devices ==
    {[source |-> src, tags |-> tags, last_updated |-> stamp.last_updated,
      age |-> stamp.age, deleted |-> d] :
        src \in {None, "vmware"},
        tags \in SUBSET ({orphaned_tag} \cup source_tags_of_disabled_sources),
        stamp \in Stamps, d \in BOOLEAN}

\* interfaces have no last_updated attribute
Interfaces ==
    {[source |-> src, tags |-> tags, last_updated |-> "none", age |-> 0,
      deleted |-> d] :
        src \in {None, "vmware"}, tags \in SUBSET {orphaned_tag}, d \in BOOLEAN}

\* inventory.get_all_items of a class, in inventory order
RECURSIVE AscendingSeq(_)
AscendingSeq(xs) ==
    IF xs = {} THEN <<>>
    ELSE LET m == CHOOSE x \in xs : \A y \in xs : x <= y
         IN  <<m>> \o AscendingSeq(xs \ {m})

ItemsOf(cls) == AscendingSeq({x \in Objs : ClassOf(x) = cls})

\* inventory.get_all_interfaces of a device
get_all_interfaces(x) == IF x = Parent THEN AscendingSeq(Children) ELSE <<>>

RECURSIVE Reversed(_)
Reversed(seq) == IF seq = <<>> THEN <<>> ELSE Reversed(Tail(seq)) \o <<Head(seq)>>

RECURSIVE VisitOrder(_)
\* lines 738-744: the objects of the prunable classes, class by class
VisitOrder(classes) ==
    IF classes = <<>> THEN <<>>
    ELSE (IF Head(classes) \in prunable THEN ItemsOf(Head(classes)) ELSE <<>>)
         \o VisitOrder(Tail(classes))

\* a delay that must be exceeded
DelayPassed_Strict(age) == age \div SecondsPerDay > prune_delay_in_days

\* lines 779-782: (today - last_updated).days >= prune_delay_in_days
DelayPassed(age) == age \div SecondsPerDay >= prune_delay_in_days

\* a check that passes objects a source still reports
ToPrune_IgnoresSource(o) ==
    /\ orphaned_tag \in o.tags
    /\ o.last_updated = "ok"
    /\ o.tags \cap source_tags_of_disabled_sources = {}
    /\ ~o.deleted
    /\ DelayPassed(o.age)

\* lines 746-782: the object passes every check of the loop body
ToPrune(o) ==
    /\ o.source = None
    /\ orphaned_tag \in o.tags
    /\ o.last_updated # "none"
    /\ o.tags \cap source_tags_of_disabled_sources = {}
    /\ ~o.deleted
    /\ o.last_updated # "bad"
    /\ DelayPassed(o.age)

\* an inner loop that leaves the interfaces to the remote system
InterfacesFirst_None(x) == <<>>

\* lines 789-793: the interfaces to delete before a device or VM
InterfacesFirst(x) ==
    IF ClassOf(x) \in {"NBVM", "NBDevice"} THEN get_all_interfaces(x) ELSE <<>>

Deleted(x, status) == [obj |-> x, status |-> status]

\* a flag set by whatever request gave back
MarkedDeleted_NotNone(ret) == ret # "null"

\* lines 804 and 809: if ret is True
MarkedDeleted(ret) == ret = "true"

InitPrune ==
    \E enabled \in BOOLEAN, flagged \in SUBSET {"NBDevice", "NBInterface"},
       device \in Devices, ifaces \in [Children -> Interfaces] :
        /\ pc = "prune"
        /\ prune_enabled = enabled
        /\ prunable = flagged
        /\ objs = [x \in Objs |-> IF x = Parent THEN device ELSE ifaces[x]]
        /\ objs_start = objs
        /\ todo = <<>>
        /\ interfaces = <<>>
        /\ deletes = <<>>
        /\ log = <<>>
        /\ errs = 0
        /\ resolved_dependencies = {}
        /\ deleted = [x \in Insts |-> FALSE]
        /\ IdleSync
        /\ IdleRequest
        /\ IdleLoad
        /\ IdleTeardown

\* lines 730-738: nothing is done unless pruning is enabled
StartPrune ==
    /\ pc = "prune"
    /\ IF prune_enabled
       THEN /\ todo' = VisitOrder(Reversed(subclasses))
            /\ pc' = "loop"
       ELSE /\ todo' = <<>>
            /\ pc' = "done"
    /\ UNCHANGED <<prune_enabled, prunable, objs, objs_start, interfaces, deletes,
                   log, errs, resolved_dependencies, deleted, exceptPrune>>

\* lines 744-793: the next object is checked; one that passes has its
\* interfaces visited first
VisitObject ==
    /\ pc = "loop"
    /\ todo # <<>>
    /\ IF ToPrune(objs[Head(todo)])
       THEN /\ interfaces' = InterfacesFirst(Head(todo))
            /\ pc' = IF InterfacesFirst(Head(todo)) = <<>> THEN "delete" ELSE "interfaces"
            /\ UNCHANGED todo
       ELSE /\ todo' = Tail(todo)
            /\ UNCHANGED <<pc, interfaces>>
    /\ UNCHANGED <<prune_enabled, prunable, objs, objs_start, deletes,
                   log, errs, resolved_dependencies, deleted, exceptPrune>>

\* lines 795-797: an interface already deleted is passed over
SkipInterface ==
    /\ pc = "interfaces"
    /\ objs[Head(interfaces)].deleted
    /\ interfaces' = Tail(interfaces)
    /\ pc' = IF Tail(interfaces) = <<>> THEN "delete" ELSE "interfaces"
    /\ UNCHANGED <<prune_enabled, prunable, objs, objs_start, todo, deletes,
                   log, errs, resolved_dependencies, deleted, exceptPrune>>

\* lines 799-805: the DELETE of an interface of the device
DeleteInterface ==
    /\ pc = "interfaces"
    /\ ~objs[Head(interfaces)].deleted
    /\ \E status \in RequestStatuses("DELETE") :
         /\ deletes' = Append(deletes, Deleted(Head(interfaces), status))
         /\ objs' = IF MarkedDeleted(Classify(status))
                    THEN [objs EXCEPT ![Head(interfaces)].deleted = TRUE]
                    ELSE objs
         /\ pc' = IF Classify(status) = "exit" THEN "aborted"
                  ELSE IF Tail(interfaces) = <<>> THEN "delete" ELSE "interfaces"
    /\ interfaces' = Tail(interfaces)
    /\ UNCHANGED <<prune_enabled, prunable, objs_start, todo,
                   log, errs, resolved_dependencies, deleted, exceptPrune>>

\* lines 807-810: the DELETE of the object itself
DeleteObject ==
    /\ pc = "delete"
    /\ \E status \in RequestStatuses("DELETE") :
         /\ deletes' = Append(deletes, Deleted(Head(todo), status))
         /\ objs' = IF MarkedDeleted(Classify(status))
                    THEN [objs EXCEPT ![Head(todo)].deleted = TRUE]
                    ELSE objs
         /\ pc' = IF Classify(status) = "exit" THEN "aborted" ELSE "loop"
    /\ todo' = Tail(todo)
    /\ UNCHANGED <<prune_enabled, prunable, objs_start, interfaces,
                   log, errs, resolved_dependencies, deleted, exceptPrune>>

\* line 812: the loops are through
ReturnFromPrune ==
    /\ pc = "loop"
    /\ todo = <<>>
    /\ pc' = "done"
    /\ UNCHANGED <<prune_enabled, prunable, objs, objs_start, todo, interfaces,
                   deletes, log, errs, resolved_dependencies, deleted, exceptPrune>>

NextPrune ==
    \/ StartPrune
    \/ VisitObject
    \/ SkipInterface
    \/ DeleteInterface
    \/ DeleteObject
    \/ ReturnFromPrune

SpecPrune == InitPrune /\ [][NextPrune]_vars

\* ========================================================================
\* NetBoxHandler.just_delete_all_the_things on its own
\* ========================================================================
\* line 829: for iteration in range(10)
purge_rounds == 10

\* bound: the objects of the inventory, one of each class
MaxThings == 2

Things == 1..MaxThings

\* the class of an object of the inventory
ThingClass(x) == subclasses[((x - 1) % Len(subclasses)) + 1]

primary_tag == "NetBox-synced"

\* the two tag records of the remote system
TagRecords == <<primary_tag, orphaned_tag>>

\* what the remote system may answer to a DELETE of the purge
PurgeStatuses == RequestStatuses("DELETE") \cup {200}

RECURSIVE PurgeOrder(_)
\* lines 835-844: the objects of the prunable classes other than the tag
\* class, class by class
PurgeOrder(classes) ==
    IF classes = <<>> THEN <<>>
    ELSE (IF Head(classes) \in prunable /\ Head(classes) # "NBTag"
          THEN AscendingSeq({x \in Things : ThingClass(x) = Head(classes)})
          ELSE <<>>)
         \o PurgeOrder(Tail(classes))

\* a loop with one round more
MoreRounds_OneMore(n) == n <= purge_rounds

\* line 829: the for loop has a round left after n rounds
MoreRounds(n) == n < purge_rounds

\* a purge that takes every object for its own
Owned_Any(o) == TRUE

\* line 852: self.primary_tag in this_object.get_tags()
Owned(o) == primary_tag \in o.tags

\* a round that counts only the objects it may delete
Found_OnlyOwned(found, o) == found \/ Owned(o)

\* line 850: found_objects_to_delete = True, for every object not deleted
Found(found, o) == TRUE

\* a flag set only by the success value
Purged_OnlyTrue(ret) == ret = "true"

\* line 857: if result is not None
Purged(ret) == ret # "null"

InitTeardown ==
    \E tagged \in SUBSET Things, flagged \in SUBSET {ThingClass(x) : x \in Things} :
        /\ pc = "purge"
        /\ iteration = 0
        /\ found_objects_to_delete = FALSE
        /\ things = [x \in Things |->
                       [tags |-> IF x \in tagged THEN {primary_tag} ELSE {},
                        deleted |-> FALSE]]
        /\ things_todo = <<>>
        /\ alive = {}
        /\ round_count = [x \in Things |-> 0]
        /\ delete_count = [x \in Things |-> 0]
        /\ tag_requests = <<>>
        /\ warned = FALSE
        /\ prunable = flagged
        /\ prune_enabled = FALSE
        /\ objs = <<>>
        /\ objs_start = <<>>
        /\ todo = <<>>
        /\ interfaces = <<>>
        /\ deletes = <<>>
        /\ log = <<>>
        /\ errs = 0
        /\ resolved_dependencies = {}
        /\ deleted = [x \in Insts |-> FALSE]
        /\ IdleSync
        /\ IdleRequest
        /\ IdleLoad

\* lines 829-835: a round begins
StartRound ==
    /\ pc = "purge"
    /\ MoreRounds(iteration)
    /\ iteration' = iteration + 1
    /\ found_objects_to_delete' = FALSE
    /\ things_todo' = PurgeOrder(Reversed(subclasses))
    /\ alive' = {x \in Things : ~things[x].deleted}
    /\ round_count' = [x \in Things |-> 0]
    /\ pc' = "round"
    /\ UNCHANGED <<things, delete_count, tag_requests, warned, log, errs,
                   resolved_dependencies, deleted, exceptTeardown>>

\* lines 846-848: an object already deleted is passed over
SkipDeleted ==
    /\ pc = "round"
    /\ things_todo # <<>>
    /\ things[Head(things_todo)].deleted
    /\ things_todo' = Tail(things_todo)
    /\ UNCHANGED <<pc, iteration, found_objects_to_delete, things, alive,
                   round_count, delete_count, tag_requests, warned, log, errs,
                   resolved_dependencies, deleted, exceptTeardown>>

\* lines 850-852: an object without the primary tag is found and left alone
LeaveUntagged ==
    /\ pc = "round"
    /\ things_todo # <<>>
    /\ ~things[Head(things_todo)].deleted
    /\ ~Owned(things[Head(things_todo)])
    /\ found_objects_to_delete' = Found(found_objects_to_delete, things[Head(things_todo)])
    /\ things_todo' = Tail(things_todo)
    /\ UNCHANGED <<pc, iteration, things, alive, round_count, delete_count,
                   tag_requests, warned, log, errs, resolved_dependencies,
                   deleted, exceptTeardown>>

\* lines 850-858: the DELETE of an object with the primary tag; of the
\* DELETEs of the purge the history keeps the latest one
DeleteTagged ==
    /\ pc = "round"
    /\ things_todo # <<>>
    /\ ~things[Head(things_todo)].deleted
    /\ Owned(things[Head(things_todo)])
    /\ found_objects_to_delete' = Found(found_objects_to_delete, things[Head(things_todo)])
    /\ round_count' = [round_count EXCEPT ![Head(things_todo)] = @ + 1]
    /\ delete_count' = [delete_count EXCEPT ![Head(things_todo)] = @ + 1]
    /\ \E status \in PurgeStatuses :
         /\ deletes' = <<Deleted(Head(things_todo), status)>>
         /\ IF Classify(status) = "exit"
            THEN /\ pc' = "aborted"
                 /\ UNCHANGED things
            ELSE /\ pc' = pc
                 /\ things' = IF Purged(Classify(status))
                              THEN [things EXCEPT ![Head(things_todo)].deleted = TRUE]
                              ELSE things
    /\ things_todo' = Tail(things_todo)
    /\ UNCHANGED <<iteration, alive, tag_requests, warned, log, errs,
                   resolved_dependencies, deleted, syncVars, requestVars,
                   loadVars, prune_enabled, prunable, objs, objs_start, todo,
                   interfaces>>

\* line 860: the round is through; it goes on to the tag records or to the
\* next round
EndRound ==
    /\ pc = "round"
    /\ things_todo = <<>>
    /\ pc' = IF found_objects_to_delete THEN "purge" ELSE "tags"
    /\ UNCHANGED <<iteration, found_objects_to_delete, things, things_todo, alive,
                   round_count, delete_count, tag_requests, warned, log, errs,
                   resolved_dependencies, deleted, exceptTeardown>>

\* lines 862-874: the two tag records are deleted and the loop is left
DeleteTags ==
    /\ pc = "tags"
    /\ \E first \in PurgeStatuses, second \in PurgeStatuses :
         IF Classify(first) = "exit"
         THEN /\ tag_requests' = <<[tag |-> TagRecords[1], status |-> first]>>
              /\ pc' = "aborted"
         ELSE /\ tag_requests' = <<[tag |-> TagRecords[1], status |-> first],
                                   [tag |-> TagRecords[2], status |-> second]>>
              /\ pc' = IF Classify(second) = "exit" THEN "aborted" ELSE "done"
    /\ UNCHANGED <<iteration, found_objects_to_delete, things, things_todo, alive,
                   round_count, delete_count, warned, log, errs,
                   resolved_dependencies, deleted, exceptTeardown>>

\* lines 875-877: the rounds are used up
GiveUpPurge ==
    /\ pc = "purge"
    /\ ~MoreRounds(iteration)
    /\ warned' = TRUE
    /\ pc' = "done"
    /\ UNCHANGED <<iteration, found_objects_to_delete, things, things_todo, alive,
                   round_count, delete_count, tag_requests, log, errs,
                   resolved_dependencies, deleted, exceptTeardown>>

NextTeardown ==
    \/ StartRound
    \/ SkipDeleted
    \/ LeaveUntagged
    \/ DeleteTagged
    \/ EndRound
    \/ DeleteTags
    \/ GiveUpPurge

SpecTeardown == InitTeardown /\ [][NextTeardown]_vars

\* the scheduler runs the one thread of the program until it ends
SpecTeardownFair == SpecTeardown /\ WF_vars(NextTeardown)

\* ------------------------------------------------------------------------
\* Vocabulary of the properties
\* ------------------------------------------------------------------------
Cycle == {"h", "i", "a"}

IsWrite(e) == e.method \in {"POST", "PATCH"}

Succeeded(e) == e.status \in {200, 201, 204}

IsFatal(e) == e.status = 403 \/ e.status >= 500

IsRefKey(x, key) == data_model[TypeOf[x]][key] \in Types

LogIdx == 1..Len(log)

ProcIdx == 1..Len(procs)

\* the update_object invocations of one pass for one type
CallsOf(p, cls) == {n \in 1..Len(calls) : calls[n].pass = p /\ calls[n].cls = cls}

\* ------------------------------------------------------------------------
\* C1  Convergence of the circular graph
\* ------------------------------------------------------------------------
GraphWasNew == \A x \in Cycle : start.is_new[x]

AllSucceeded == \A k \in LogIdx : Succeeded(log[k])

\* C1: when host, interface and address were all new at the start of the
\* run and every request succeeded, then after update_instance all three
\* have a remote identifier, a write carrying the host's primary address
\* with the address' identifier was issued and stored remotely, and no
\* updated field of any instance holds an unresolved reference.
C1_Convergence ==
    (pc = "done" /\ GraphWasNew /\ AllSucceeded) =>
        /\ \A x \in Cycle : nb_id[x] # NoId /\ ~is_new[x]
        /\ \E k \in LogIdx :
              /\ log[k].inst = "h"
              /\ "primary_ip4" \in DOMAIN log[k].body
              /\ log[k].body["primary_ip4"] = nb_id["a"]
        /\ remote["h"].fields["primary_ip4"] = nb_id["a"]
        /\ \A x \in Insts : UnresolvedItems(x) = {}
        /\ reported = {}

C1_Witness ==
    /\ pc = "done" /\ GraphWasNew /\ AllSucceeded
    /\ remote["h"].fields["primary_ip4"] = nb_id["a"]
    /\ nb_id["a"] # NoId

\* ------------------------------------------------------------------------
\* C2  Dependency ordering
\* ------------------------------------------------------------------------
\* C2: no Upsert-mode processing sends an updated reference field whose
\* target had no remote identifier at that moment, and no POST or PATCH of
\* Upsert mode carries a null identifier for a reference field.
C2_DependencyOrdering ==
    /\ \A n \in ProcIdx : procs[n].unresolved \cap procs[n].sent = {}
    /\ \A k \in LogIdx :
          (IsWrite(log[k]) /\ ~log[k].unset) =>
              \A key \in DOMAIN log[k].body :
                  IsRefKey(log[k].inst, key) => log[k].body[key] # NoId

\* a write was issued for an instance while one of its updated references
\* was still unresolved
C2_Witness ==
    \E n \in ProcIdx : procs[n].unresolved # {} /\ procs[n].sent # {}

\* ------------------------------------------------------------------------
\* C3  Three-pass primary-address resolution
\* ------------------------------------------------------------------------
\* the instance was processed in pass 2 with an updated, unresolved primary
\* address
DeferredInPass2(x) ==
    \E n \in ProcIdx :
        procs[n].pass = 2 /\ procs[n].inst = x /\ "primary_ip4" \in procs[n].unresolved

\* the instance went through the processing of the final pass
ProcessedLast(x) ==
    \E n \in ProcIdx : procs[n].inst = x /\ procs[n].last_run

\* C3: an instance whose updated primary address is unresolved in pass 2
\* gets no write of that field in pass 2 and keeps it in updated_items until
\* the final-pass processing; that processing, when the target then has an
\* identifier, issues a write carrying the field with the target's identifier.
C3_PrimaryAddressResolution ==
    \A x \in Insts :
        DeferredInPass2(x) =>
            /\ \A k \in LogIdx :
                  (log[k].inst = x /\ log[k].pass = 2) =>
                      "primary_ip4" \notin DOMAIN log[k].body
            /\ ~ProcessedLast(x) => "primary_ip4" \in updated_items[x]
            /\ \A n \in ProcIdx :
                  (procs[n].inst = x /\ procs[n].last_run
                     /\ "primary_ip4" \notin procs[n].unresolved) =>
                      /\ "primary_ip4" \in procs[n].sent
                      /\ \E k \in LogIdx :
                            /\ log[k].inst = x /\ log[k].pass = 3 /\ log[k].last_run
                            /\ "primary_ip4" \in DOMAIN log[k].body
                            /\ log[k].body["primary_ip4"] = nb_id[Target[x]]

C3_Witness ==
    \E x \in Insts :
        /\ DeferredInPass2(x)
        /\ \E k \in LogIdx :
              /\ log[k].inst = x /\ log[k].pass = 3
              /\ "primary_ip4" \in DOMAIN log[k].body
              /\ Succeeded(log[k])

\* ------------------------------------------------------------------------
\* C4  Primary address only in the final pass
\* ------------------------------------------------------------------------
\* C4 as claimed: no write of pass 1, of pass 2 or of a recursive dependency
\* call contains a primary-address field.
C4_NoPrimaryAddressBeforeLastRun ==
    \A k \in LogIdx :
        ~log[k].last_run => \A key \in DOMAIN log[k].body : ~IsPrimaryIp(key)

\* C4 amended: no Upsert-mode write issued without last_run (pass 2 and
\* every recursive dependency call) contains a primary-address field, even
\* when its target has an identifier; a primary-address field appears only
\* in writes processed with last_run set and, with a null value, in the
\* Unset-mode PATCH of pass 1.
C4_PrimaryAddressDeferred ==
    /\ \A k \in LogIdx :
          (~log[k].last_run /\ ~log[k].unset) =>
              \A key \in DOMAIN log[k].body : ~IsPrimaryIp(key)
    /\ \A k \in LogIdx :
          (~log[k].last_run /\ log[k].unset) =>
              \A key \in DOMAIN log[k].body : IsPrimaryIp(key) => log[k].body[key] = NoId
    /\ \A n \in ProcIdx :
          ~procs[n].last_run =>
              \A key \in procs[n].updated :
                  (IsPrimaryIp(key) /\ key \notin procs[n].unresolved) =>
                      key \in procs[n].deferred

\* a primary address whose target has an identifier was deferred outside
\* the final pass, while other fields of the instance were written
C4_Witness ==
    \E n \in ProcIdx :
        /\ ~procs[n].last_run
        /\ "primary_ip4" \in procs[n].deferred \ procs[n].unresolved

\* ------------------------------------------------------------------------
\* C5  Unset mode before the upserts
\* ------------------------------------------------------------------------
\* C5: within one run every Unset-mode PATCH is issued before any
\* Upsert-mode POST or PATCH.
C5_UnsetBeforeUpsert ==
    \A j \in LogIdx, k \in LogIdx :
        (j < k /\ IsWrite(log[j]) /\ ~log[j].unset) => ~log[k].unset

\* ------------------------------------------------------------------------
\* C6  Memoization by resolved_dependencies
\* ------------------------------------------------------------------------
\* C6 as claimed: in each pass the instances of a type are processed by at
\* most one update_object invocation, top-level or dependency.
C6_ProcessedOncePerPass ==
    \A p \in 1..3, cls \in Types : Cardinality(CallsOf(p, cls)) <= 1

\* C6 amended: in each pass a type is processed at most once as a dependency
\* of another type and exactly once by the top-level loop, which does not
\* consult resolved_dependencies; a type is processed by a recursive call only
\* before its own top-level turn of that pass, so at most twice per pass.
C6_MemoizedDependencies ==
    \A p \in 1..3, cls \in Types :
        /\ Cardinality({n \in CallsOf(p, cls) : calls[n].depth > 1}) <= 1
        /\ Cardinality({n \in CallsOf(p, cls) : calls[n].depth = 1}) <= 1
        /\ \A n \in CallsOf(p, cls), o \in CallsOf(p, cls) :
              (calls[n].depth = 1 /\ calls[o].depth > 1) => o < n
        /\ (pass > p \/ pc = "done") =>
              Cardinality({n \in CallsOf(p, cls) : calls[n].depth = 1}) = 1

\* a type was processed as a dependency and again by the top-level loop of
\* the same pass
C6_Witness ==
    \E p \in 1..3, cls \in Types :
        /\ \E n \in CallsOf(p, cls) : calls[n].depth > 1
        /\ \E n \in CallsOf(p, cls) : calls[n].depth = 1

\* ------------------------------------------------------------------------
\* C7  is_new and the remote identifier
\* ------------------------------------------------------------------------
\* a POST for the instance returned the created representation
Created(x) ==
    \E k \in LogIdx : log[k].inst = x /\ log[k].method = "POST" /\ log[k].status = 201

\* C7: an instance that was new at the start of the run has is_new set and
\* no remote identifier in every state before its first successful POST, and
\* has is_new cleared and a remote identifier in every state from the merge
\* of that POST's response on; is_new implies a null identifier throughout.
C7_IsNewUntilCreated ==
    \A x \in Insts :
        /\ is_new[x] => nb_id[x] = NoId
        /\ (pc # "idle" /\ start.is_new[x]) =>
              /\ ~Created(x) => (is_new[x] /\ nb_id[x] = NoId)
              /\ Created(x) => (~is_new[x] /\ nb_id[x] # NoId /\ nb_id[x] = remote[x].id)

\* an instance was created in this run after an earlier POST for it failed
C7_Witness ==
    \E x \in Insts :
        /\ start.is_new[x] /\ Created(x) /\ ~is_new[x]
        /\ \E k \in LogIdx : log[k].inst = x /\ log[k].method = "POST" /\ log[k].status = 400

\* ------------------------------------------------------------------------
\* C8  Idempotence
\* ------------------------------------------------------------------------
\* every instance is seeded from remote state and carries no change
Converged(g) ==
    \A x \in Insts : ~g.is_new[x] /\ g.updated_items[x] = {} /\ g.unset_items[x] = {}

\* C8: a run that starts from a graph in which every instance is seeded from
\* remote state with empty updated_items and empty unset_items issues no
\* request at all in its three passes.
C8_Idempotence ==
    (pc # "idle" /\ Converged(start)) => log = <<>>

C8_Witness ==
    pc = "done" /\ Converged(start) /\ log = <<>> /\ Len(procs) >= Cardinality(Insts)

\* ------------------------------------------------------------------------
\* C9  Deleted records are not resubmitted
\* ------------------------------------------------------------------------
\* C9: no request of the run is issued for an instance that was marked
\* deleted before the request.
C9_DeletedNeverResubmitted ==
    \A k \in LogIdx : ~deleted[log[k].inst]

\* ------------------------------------------------------------------------
\* C10  Fatal statuses
\* ------------------------------------------------------------------------
\* the entry is the last successful write of its field for its instance
LastWriteOf(k, key) ==
    ~\E j \in LogIdx :
        j > k /\ log[j].inst = log[k].inst /\ Succeeded(log[j]) /\ key \in DOMAIN log[j].body

SendsOf(url) == {k \in 1..Len(sends) : sends[k].request.url = url}

\* the sends that were answered
Responses == SelectSeq(sends, LAMBDA s : s.status # TransportFailure)

\* the last max_retry_attempts sends all hit a transport failure
GaveUp ==
    /\ Len(sends) >= max_retry_attempts
    /\ \A k \in (Len(sends) - max_retry_attempts + 1)..Len(sends) :
         /\ sends[k].status = TransportFailure
         /\ sends[k].request = sends[Len(sends)].request

RECURSIVE Concat(_)
Concat(seqs) == IF seqs = <<>> THEN <<>> ELSE Head(seqs) \o Concat(Tail(seqs))

\* C12: a request is sent at most max_retry_attempts times; it is sent again,
\* as the same prepared request, only after a transport failure; an answered
\* attempt is the last one for that request; and when all the attempts fail
\* the run is aborted and nothing more is sent.
C12_BoundedRetry ==
    /\ \A u \in 1..MaxPages + 1 : Cardinality(SendsOf(u)) <= max_retry_attempts
    /\ \A k \in 1..Len(sends) - 1 :
         /\ sends[k + 1].request.url = sends[k].request.url
              => sends[k].status = TransportFailure
         /\ sends[k].status = TransportFailure
              => sends[k + 1].request = sends[k].request
         /\ sends[k].status # TransportFailure
              => \A j \in k + 1..Len(sends) : sends[j].request.url # sends[k].request.url
    /\ \A k \in 1..Len(sends) - 1 :
         ~(/\ k >= max_retry_attempts
           /\ \A j \in (k - max_retry_attempts + 1)..k :
                sends[j].status = TransportFailure /\ sends[j].request = sends[k].request)
    /\ GaveUp => pc = "aborted"
    /\ (pc \in {"first", "next"} /\ sends # <<>> /\ sends[Len(sends)].status = TransportFailure)
         => attempts < max_retry_attempts

C12_Witness ==
    /\ GaveUp
    /\ pc = "aborted"
    /\ this_request.url = 2
    /\ Len(Responses) = 1

\* C13: a GET whose first response is 200 and that returns has asked for every
\* page of the chain once, in chain order, and returns the pages' results
\* concatenated in that order.
C13_Pagination ==
    (/\ pc = "returned"
     /\ this_request.method = "GET"
     /\ sends # <<>>
     /\ Responses # <<>>
     /\ Responses[1].status = 200)
    => /\ result.kind = "payload"
       /\ result.results = Concat(pages)
       /\ Len(Responses) = Len(pages)
       /\ \A k \in 1..Len(Responses) : Responses[k].request.url = k

C13_Witness ==
    /\ pc = "returned"
    /\ this_request.method = "GET"
    /\ Len(pages) = 3
    /\ \A k \in 1..3 : Len(pages[k]) = 2
    /\ result.kind = "payload"
    /\ Len(result.results) = 6
    /\ \E k \in 1..Len(sends) : sends[k].status = TransportFailure

\* ------------------------------------------------------------------------
\* Properties of query_current_data
\* ------------------------------------------------------------------------
IsClientError(status) == status >= 400 /\ status < 500 /\ status # 403

KindsOf(fs) == [k \in 1..Len(fs) |-> fs[k].kind]

\* the cache file the call found can be decoded and carries a timestamp
Decodable(file) ==
    /\ file.exists
    /\ file.readable
    /\ ~file.corrupt
    /\ LatestOf(file.content) # NoTime

\* C11: a full, brief or delta fetch answered with a 4xx status other than
\* 403 leaves the run going.
C11_ClientErrorContinues ==
    \A k \in 1..Len(fetches) :
        IsClientError(fetches[k].status) => pc \notin {"crashed", "aborted"}

\* C14: the result of an incremental load is the cached records whose id is
\* in the brief list and not among the delta ids, in cache order, followed by
\* all the delta records; a cached id missing from the brief list is not in
\* the result.
C14_CacheMerge ==
    \A k \in 1..Len(loads) :
        LET load == loads[k]
            Stays(r) == r.id \in IdsOf(load.brief) /\ r.id \notin IdsOf(load.updated)
        IN  load.kind = "incremental"
            => /\ load.result = SelectSeq(load.cached, Stays) \o load.updated
               /\ \A j \in 1..Len(load.cached) :
                    load.cached[j].id \notin IdsOf(load.brief)
                        => load.cached[j].id \notin IdsOf(load.result)
               /\ Len(load.result) = Cardinality(IdsOf(load.result))

C14_Witness ==
    \E k \in 1..Len(loads) :
        /\ loads[k].kind = "incremental"
        /\ Len(loads[k].cached) = 2
        /\ Cardinality(IdsOf(loads[k].cached) \ IdsOf(loads[k].brief)) = 1
        /\ Len(loads[k].updated) = 1
        /\ \A j \in 1..2 : loads[k].cached[j] # loads[k].updated[1]
        /\ loads[k].result = loads[k].updated

\* C15 as stated: with caching on, a decodable cache with a timestamp always
\* gives brief then delta, and anything else one full fetch.
C15_IncrementalWheneverDecodable ==
    (use_caching /\ fetches # <<>>)
    => IF Decodable(cache_start)
       THEN KindsOf(fetches) \in {<<"brief">>, <<"brief", "delta">>}
       ELSE KindsOf(fetches) = <<"full">>

\* C15: the load is one full fetch, and no brief or delta fetch, unless
\* caching is on and the cache file is decodable, carries a timestamp and is
\* writable; then it is the brief fetch followed by the delta fetch for
\* last_updated__gte = the largest cached last_updated, and no full fetch.
C15_FullOrIncremental ==
    /\ fetches # <<>>
       => IF use_caching /\ Decodable(cache_start) /\ cache_start.writable
          THEN /\ KindsOf(fetches) \in {<<"brief">>, <<"brief", "delta">>}
               /\ \A k \in 1..Len(fetches) :
                    fetches[k].kind = "delta"
                        => fetches[k].since = LatestOf(cache_start.content)
          ELSE KindsOf(fetches) = <<"full">>
    /\ \A k \in 1..Len(loads) :
         loads[k].kind = "incremental" <=> KindsOf(fetches) = <<"brief", "delta">>

C15_Witness ==
    /\ use_caching
    /\ Decodable(cache_start)
    /\ ~cache_start.writable
    /\ Len(loads) = 1
    /\ loads[1].kind = "full"
    /\ visited = 2

\* C16 as stated: with caching on, the cache entry equals the result set
\* once the load of the class has completed.
C16_CacheAlwaysWritten ==
    (use_caching /\ loads # <<>>)
    => /\ cache_file.exists
       /\ ~cache_file.corrupt
       /\ cache_file.content = loads[Len(loads)].result

\* C16: with caching on and the cache file open to writing, the cache entry
\* equals the result set added to the inventory once the load has completed,
\* after an incremental load and after a full fetch alike; in every other
\* case the cache file is as the call found it.
C16_CacheWriteBack ==
    IF use_caching /\ cache_start.writable /\ loads # <<>>
    THEN /\ cache_file.exists
         /\ ~cache_file.corrupt
         /\ cache_file.content = loads[Len(loads)].result
         /\ inventory = loads[Len(loads)].result
    ELSE cache_file = cache_start

C16_Witness ==
    /\ use_caching
    /\ Len(loads) = 1
    /\ loads[1].kind = "incremental"
    /\ cache_file.content = loads[1].result
    /\ cache_file.content # cache_start.content
    /\ Len(inventory) = 2

\* C17: a cache file that cannot be read or decoded is a cache miss: nothing
\* ends the run before a fetch is made, the fetch is the full one, and the
\* result of the load is the full remote set.
C17_UnreadableCacheIsMiss ==
    (use_caching /\ cache_start.exists /\ (cache_start.corrupt \/ ~cache_start.readable))
    => /\ pc \in {"load", "full"} \/ fetches # <<>>
       /\ pc \notin {"brief", "delta"}
       /\ \A k \in 1..Len(fetches) : fetches[k].kind = "full"
       /\ \A k \in 1..Len(loads) : loads[k].result = nb_remote
       /\ (pc = "load" /\ visited > 0) => loads # <<>>

C17_Witness ==
    /\ use_caching
    /\ cache_start.exists
    /\ cache_start.corrupt
    /\ cache_start.readable
    /\ cache_start.writable
    /\ LatestOf(cache_start.content) # NoTime
    /\ Len(loads) = 1
    /\ loads[1].result = nb_remote
    /\ Len(nb_remote) = 2
    /\ cache_start.content # nb_remote

\* ------------------------------------------------------------------------
\* Properties of prune_data
\* ------------------------------------------------------------------------
\* the objects a DELETE was issued for
DeleteIssued(x) == \E k \in 1..Len(deletes) : deletes[k].obj = x

WholeDays(age) == age \div SecondsPerDay

\* the conditions on an orphan other than its age
Orphaned(o) ==
    /\ o.source = None
    /\ orphaned_tag \in o.tags
    /\ o.last_updated = "ok"
    /\ o.tags \cap source_tags_of_disabled_sources = {}
    /\ ~o.deleted

C19_GraceBoundary ==
    (prune_enabled /\ "NBDevice" \in prunable /\ Orphaned(objs_start[Parent]))
    => /\ DeleteIssued(Parent)
            => WholeDays(objs_start[Parent].age) >= prune_delay_in_days
       /\ (pc = "done" /\ WholeDays(objs_start[Parent].age) >= prune_delay_in_days)
            => DeleteIssued(Parent)
       /\ (pc = "done" /\ objs_start[Parent].age >= prune_delay_in_days * SecondsPerDay)
            => DeleteIssued(Parent)
       /\ objs_start[Parent].age < prune_delay_in_days * SecondsPerDay
            => ~DeleteIssued(Parent)

C19_Witness ==
    /\ pc = "done"
    /\ prune_enabled
    /\ Orphaned(objs_start[Parent])
    /\ objs_start[Parent].age = prune_delay_in_days * SecondsPerDay
    /\ DeleteIssued(Parent)
    /\ objs[Parent].deleted

\* C20: when a device is pruned, the DELETE of every interface of it that is
\* not already deleted is issued before the DELETE of the device, and no
\* DELETE is issued for an interface already deleted.
C20_ChildrenBeforeParent ==
    \A k \in 1..Len(deletes) :
        deletes[k].obj = Parent
            => \A c \in Children :
                 IF objs_start[c].deleted
                 THEN ~DeleteIssued(c)
                 ELSE \E j \in 1..k - 1 : deletes[j].obj = c

C20_Witness ==
    /\ Len(deletes) = MaxChildren + 1
    /\ deletes[Len(deletes)].obj = Parent
    /\ \A c \in Children : deletes[c].obj = c
    /\ deletes[1].status = 404
    /\ ~objs[1].deleted

\* C21: prune_data marks an object deleted exactly when its DELETE was
\* answered 204; an object whose DELETE failed with a client error keeps
\* deleted = FALSE and every other attribute, and so passes the same checks
\* on a later run.
C21_PruneOutcome ==
    \A x \in Objs :
        /\ objs[x].deleted
             <=> \/ objs_start[x].deleted
                 \/ \E k \in 1..Len(deletes) :
                      deletes[k].obj = x /\ deletes[k].status = 204
        /\ objs[x] = [objs_start[x] EXCEPT !.deleted = objs[x].deleted]
        /\ (\E k \in 1..Len(deletes) :
              deletes[k].obj = x /\ IsClientError(deletes[k].status))
             => /\ objs[x] = objs_start[x]
                /\ ~objs[x].deleted
                /\ Orphaned(objs[x]) = Orphaned(objs_start[x])

C21_Witness ==
    /\ pc = "done"
    /\ Len(deletes) = MaxChildren + 1
    /\ deletes[1].status = 204
    /\ objs[1].deleted
    /\ deletes[Len(deletes)].obj = Parent
    /\ deletes[Len(deletes)].status = 404
    /\ ~objs[Parent].deleted
    /\ Orphaned(objs[Parent])

\* ------------------------------------------------------------------------
\* Properties of just_delete_all_the_things
\* ------------------------------------------------------------------------
\* the round begun last has visited every object
RoundComplete ==
    /\ iteration >= 1
    /\ \/ pc = "round" /\ things_todo = <<>>
       \/ pc \in {"purge", "tags", "done"}

NoDeleteInRound == \A x \in Things : round_count[x] = 0

Terminated == pc \in {"done", "aborted"}

BoundedRounds ==
    /\ iteration <= purge_rounds
    /\ \A x \in Things : delete_count[x] <= purge_rounds
    /\ warned => pc = "done" /\ iteration = purge_rounds /\ tag_requests = <<>>
    /\ (pc = "done" /\ tag_requests = <<>>) => warned

\* C22: just_delete_all_the_things runs at most 10 rounds and then ends,
\* whatever the responses are; when no round went on to the tag records it
\* ends with the warning and without a DELETE for a tag record; no object
\* receives more than 10 DELETE requests.
C22_BoundedTeardown == []BoundedRounds /\ <>Terminated

C22_Witness ==
    /\ pc = "done"
    /\ warned
    /\ iteration = purge_rounds
    /\ tag_requests = <<>>
    /\ \E x \in Things : delete_count[x] = purge_rounds /\ ~things[x].deleted

\* C23: after a round in which no DELETE was issued for any object the two
\* tag records are deleted and no further round is run.
C23_NoDeleteRoundExhausts ==
    (RoundComplete /\ NoDeleteInRound /\ pc \in {"purge", "done"})
    => (pc = "done" /\ ~warned /\ Len(tag_requests) = 2)

\* C24: in every round each object of a prunable class other than the tag
\* class that is not deleted when the round begins and carries the primary
\* tag receives exactly one DELETE, and no other object receives one; an
\* object whose DELETE failed is therefore sent a DELETE in every round.
C24_TeardownScope ==
    /\ \A x \in Things :
         /\ round_count[x] <= 1
         /\ delete_count[x] > 0
              => primary_tag \in things[x].tags /\ ThingClass(x) \in prunable
    /\ RoundComplete
         => \A x \in Things :
              /\ round_count[x] =
                   IF /\ x \in alive
                      /\ ThingClass(x) \in prunable
                      /\ primary_tag \in things[x].tags
                   THEN 1 ELSE 0
              /\ (ThingClass(x) \in prunable /\ primary_tag \in things[x].tags
                    /\ ~things[x].deleted)
                   => delete_count[x] = iteration

C24_Witness ==
    /\ RoundComplete
    /\ iteration = 2
    /\ \E x \in Things :
         /\ delete_count[x] = 2
         /\ round_count[x] = 1
         /\ ~things[x].deleted
    /\ \E x \in Things :
         /\ primary_tag \notin things[x].tags
         /\ delete_count[x] = 0

\* ------------------------------------------------------------------------
\* Further properties of update_instance and update_object
\* ------------------------------------------------------------------------
\* the step is a write of Upsert mode for x that failed with a client error
FailedUpsert(x) ==
    /\ Len(log') = Len(log) + 1
    /\ log'[Len(log')].inst = x
    /\ ~log'[Len(log')].unset
    /\ IsClientError(log'[Len(log')].status)

\* C25: when the POST or PATCH of Upsert mode for an instance fails with a
\* client error other than 403, every field that was in updated_items before
\* the processing, sent or deferred, is in it afterwards, and is_new, the
\* remote identifier and the data of the instance are unchanged.
C25_FailedWriteKeepsState ==
    [][\A x \in Insts :
          FailedUpsert(x)
             => /\ updated_items[x] \subseteq updated_items'[x]
                /\ DOMAIN log'[Len(log')].body \subseteq updated_items'[x]
                /\ procs'[Len(procs')].deferred \subseteq updated_items'[x]
                /\ is_new'[x] = is_new[x]
                /\ nb_id'[x] = nb_id[x]
                /\ data'[x] = data[x]]_vars

C25_Witness ==
    /\ log # <<>>
    /\ procs # <<>>
    /\ LET e == log[Len(log)]
           p == procs[Len(procs)]
       IN  /\ e.method = "POST"
           /\ ~e.unset
           /\ IsClientError(e.status)
           /\ p.inst = e.inst
           /\ p.deferred # {}
           /\ (DOMAIN e.body \cup p.deferred) \subseteq updated_items[e.inst]
           /\ is_new[e.inst]
           /\ nb_id[e.inst] = NoId

\* C26: after a POST or PATCH of Upsert mode for a record failed with a
\* client error, no further write for that record is issued in the run.
C26_FailedRecordSkipped ==
    \A j \in LogIdx, k \in LogIdx :
        (/\ j < k
         /\ IsWrite(log[j])
         /\ ~log[j].unset
         /\ IsClientError(log[j].status)
         /\ log[k].inst = log[j].inst)
        => ~IsWrite(log[k])

\* the updated fields that hold a reference to an instance without remote
\* identifier, over all instances
Residual ==
    UNION {{<<x, key>> : key \in {f \in updated_items[x] :
                                    /\ IsRefKey(x, f)
                                    /\ data[x][f] \in Insts
                                    /\ nb_id[data[x][f]] = NoId}} : x \in Insts}

\* C27: update_instance ends normally after the third pass; it then has
\* reported exactly the updated fields that still hold a reference without
\* remote identifier, and no request belongs to a pass after the third.
C27_ResidualReported ==
    /\ pc = "done" => reported = Residual
    /\ reported # {} => pc = "done"
    /\ \A k \in LogIdx : log[k].pass \in 1..3
    /\ pass <= 3
    /\ (pc = "run" /\ pass = 3 /\ stack = <<>> /\ top > Len(subclasses))
         => ENABLED FinalCheck

C27_Witness ==
    /\ pc = "done"
    /\ <<"i", "device">> \in reported
    /\ nb_id["h"] = NoId
    /\ \E k \in LogIdx : log[k].pass = 3 /\ log[k].inst = "h"

\* the updated fields of this_object that the processing does not defer
DeferredFree ==
    {key \in updated_items[this_object] :
        ~(/\ IsRefKey(this_object, key)
          /\ data[this_object][key] \in Insts
          /\ \/ nb_id[data[this_object][key]] = NoId
             \/ key = "primary_ip4" /\ ~TopFrame.last_run)}

\* the step is one Upsert-mode processing of this_object
Processed == Len(procs') = Len(procs) + 1

\* C28: an Upsert-mode processing of an instance issues exactly one write
\* when some updated field is not deferred, a POST without identifier when
\* the instance has no remote identifier and a PATCH to its remote identifier
\* otherwise, the body made of the fields not deferred; it issues no request
\* when every updated field is deferred or none is updated.
C28_WriteSelection ==
    [][Processed
          => IF DeferredFree # {}
             THEN /\ Len(log') = Len(log) + 1
                  /\ log'[Len(log')].inst = this_object
                  /\ DOMAIN log'[Len(log')].body = DeferredFree
                  /\ IF nb_id[this_object] = NoId
                     THEN log'[Len(log')].method = "POST" /\ log'[Len(log')].id = NoId
                     ELSE /\ log'[Len(log')].method = "PATCH"
                          /\ log'[Len(log')].id = nb_id[this_object]
             ELSE log' = log]_vars

C28_Witness ==
    /\ \E j \in LogIdx, k \in LogIdx :
         /\ j < k
         /\ log[j].inst = log[k].inst
         /\ log[j].method = "POST" /\ log[j].id = NoId /\ log[j].status = 201
         /\ log[k].method = "PATCH" /\ log[k].id = nb_id[log[k].inst]
         /\ log[k].id # NoId
    /\ \E n \in ProcIdx : procs[n].sent = {} /\ procs[n].deferred # {}

\* the updated fields of this_object that the processing defers
DeferredNow ==
    {key \in updated_items[this_object] :
        /\ IsRefKey(this_object, key)
        /\ data[this_object][key] \in Insts
        /\ \/ nb_id[data[this_object][key]] = NoId
           \/ key = "primary_ip4" /\ ~TopFrame.last_run}

\* C29: after an Upsert-mode processing every deferred field is in
\* updated_items and in data with the reference it held, whether the write
\* of the other fields succeeded, failed or was not issued; and updated_items
\* never holds a field that data does not have.
C29_DeferredSurvive ==
    /\ [](\A x \in Insts : updated_items[x] \subseteq DOMAIN data[x])
    /\ [][Processed
             => \A f \in DeferredNow :
                  /\ f \in updated_items'[this_object]
                  /\ f \in DOMAIN data'[this_object]
                  /\ data'[this_object][f] = data[this_object][f]]_vars

C29_Witness ==
    /\ log # <<>>
    /\ procs # <<>>
    /\ LET e == log[Len(log)]
           p == procs[Len(procs)]
       IN  /\ p.inst = e.inst
           /\ e.status = 201
           /\ p.deferred # {}
           /\ p.deferred \subseteq updated_items[e.inst]
           /\ \A f \in p.deferred : data[e.inst][f] \in Insts
           /\ \E n \in ProcIdx : procs[n].sent = {} /\ procs[n].deferred # {}

\* the Unset-mode requests issued for instance x
UnsetPatches(x) == {k \in LogIdx : log[k].unset /\ log[k].inst = x}

\* the first pass of the run is over
UnsetPassOver == pass >= 2

DependsOn(x) == ReachableFrom(declared, TypeOf[x], Cardinality(Types)) \ {TypeOf[x]}

\* the frames of the call stack that process type cls
FramesOf(cls) == {n \in 1..Len(stack) : stack[n].cls = cls}

\* the step issues an Upsert-mode write
UpsertWrite ==
    /\ Len(log') = Len(log) + 1
    /\ IsWrite(log'[Len(log')])
    /\ ~log'[Len(log')].unset

\* C31: when an Upsert-mode write for an instance is issued, every type its
\* type depends on, directly or through other types, is in the resolved set,
\* and a type in the resolved set has had an update_object call of the
\* current pass that has returned.
C31_DependenciesFirst ==
    /\ [][UpsertWrite => DependsOn(log'[Len(log')].inst) \subseteq resolved_dependencies]_vars
    /\ [](\A cls \in resolved_dependencies :
             Cardinality(CallsOf(pass, cls)) > Cardinality(FramesOf(cls)))

C31_Witness ==
    /\ pass = 2
    /\ log # <<>>
    /\ log[Len(log)].inst = "h"
    /\ log[Len(log)].pass = 2
    /\ DependsOn("h") = {"NBIPAddress", "NBInterface"}
    /\ DependsOn("h") \subseteq resolved_dependencies
    /\ \E n \in CallsOf(2, "NBInterface") : calls[n].depth = 3

\* ------------------------------------------------------------------------
\* C32: every PATCH of update_object, in Unset mode and in Upsert mode, is
\* addressed to a remote identifier that is not null.
C32_PatchAddressed ==
    \A k \in LogIdx : log[k].method = "PATCH" => log[k].id # NoId

\* ------------------------------------------------------------------------
\* Further properties of just_delete_all_the_things
\* ------------------------------------------------------------------------
\* the step marks object x of the purge deleted
NewlyPurged(x) == things'[x].deleted /\ ~things[x].deleted

\* C33: an object is marked deleted only by a step whose DELETE for that
\* object was answered 204, the success value of request; no other answer
\* to a DELETE sets the flag.
C33_DeletedOnlyAfterSuccess ==
    [][\A x \in Things :
          NewlyPurged(x) => /\ deletes' # <<>>
                            /\ deletes'[1].obj = x
                            /\ deletes'[1].status = 204]_vars

\* ------------------------------------------------------------------------
\* Further properties of prune_data
\* ------------------------------------------------------------------------
\* C34: every DELETE of prune_data, the ones for the interfaces of a device
\* included, is for an instance without source attribution that carries the
\* orphan tag.
C34_NoDeleteOfSourcedOrUntagged ==
    \A k \in 1..Len(deletes) :
        /\ objs_start[deletes[k].obj].source = None
        /\ orphaned_tag \in objs_start[deletes[k].obj].tags

\* the objects of the prunable classes other than the tag class
PurgeScope == {x \in Things : ThingClass(x) \in prunable /\ ThingClass(x) # "NBTag"}

\* C35: the DELETEs of the two tag records are issued only in a round at
\* whose start every object of a prunable class other than the tag class was
\* marked deleted, and no DELETE follows them; when the purge ends with such
\* an object not marked deleted, all rounds were run, the warning was given
\* and no tag record was deleted.
C35_TagsOnlyWhenAllDeleted ==
    /\ [](tag_requests # <<>> =>
             /\ \A x \in PurgeScope : things[x].deleted /\ x \notin alive
             /\ tag_requests[1].tag = primary_tag
             /\ Len(tag_requests) = 2 => tag_requests[2].tag = orphaned_tag)
    /\ []((pc = "done" /\ \E x \in PurgeScope : ~things[x].deleted) =>
             /\ iteration = purge_rounds
             /\ warned
             /\ tag_requests = <<>>)
    /\ [][tag_requests # <<>> =>
             /\ tag_requests' = tag_requests
             /\ delete_count' = delete_count]_vars

C35_Witness ==
    /\ pc = "done"
    /\ Len(tag_requests) = 2
    /\ PurgeScope = Things
    /\ \A x \in Things : things[x].deleted
    /\ \E x \in Things : delete_count[x] >= 2
    /\ iteration >= 3

\* ------------------------------------------------------------------------
\* Further properties of query_current_data
\* ------------------------------------------------------------------------
\* the class was in resolved_dependencies before the load began
ResolvedBefore == QueriedClass \in resolved_dependencies /\ loads = <<>>

\* the loop is at a class that is in resolved_dependencies
AtRetrieved ==
    /\ pc = "load"
    /\ visited < Len(to_query)
    /\ nb_object_class \in resolved_dependencies

\* C36: a class is fetched and added to the inventory at most once by
\* query_current_data; a class that is in resolved_dependencies when the loop
\* comes to it, through an earlier load of the same call or from before the
\* call, is passed over without a request, without a change of its cache
\* file and without an addition to the inventory.
C36_MemoizedLoad ==
    /\ [](Len(loads) <= 1)
    /\ [](loads # <<>> => QueriedClass \in resolved_dependencies)
    /\ [](ResolvedBefore =>
             /\ fetches = <<>>
             /\ inventory = <<>>
             /\ cache_file = cache_start)
    /\ [][AtRetrieved =>
             /\ visited' = visited + 1
             /\ fetches' = fetches
             /\ inventory' = inventory
             /\ loads' = loads
             /\ cache_file' = cache_file]_vars

C36_Witness ==
    /\ Len(to_query) = 2
    /\ visited = 2
    /\ Len(loads) = 1
    /\ loads[1].kind = "incremental"
    /\ Len(fetches) = 2
    /\ cache_file # cache_start

\* ------------------------------------------------------------------------
\* Further properties of request
\* ------------------------------------------------------------------------
\* the latest send was answered and asked for a following page
FollowUpAnswered ==
    /\ sends # <<>>
    /\ sends[Len(sends)].request.url > 1
    /\ sends[Len(sends)].status # TransportFailure

\* C37: the answer to a following page of a paginated GET is classified as
\* the answer to the first page is: 403 or a status from 500 on aborts the
\* run, another 4xx status makes request return null.
C37_EveryPageClassified ==
    FollowUpAnswered =>
        /\ (sends[Len(sends)].status = 403 \/ sends[Len(sends)].status >= 500)
              => pc = "aborted"
        /\ IsClientError(sends[Len(sends)].status)
              => (pc = "returned" /\ result.kind = "null")

\* ------------------------------------------------------------------------
\* Termination of update_object and of a pass
\* ------------------------------------------------------------------------
MaxOf(S) == CHOOSE n \in S : \A m \in S : m <= n

RECURSIVE ChainFrom(_, _, _)
\* the length of the longest chain of declared dependencies that starts at
\* type t, looking n types ahead
ChainFrom(rel, t, n) ==
    LET next == {e[2] : e \in {e \in rel : e[1] = t}}
    IN  IF n = 0 \/ next = {} THEN 0
        ELSE 1 + MaxOf({ChainFrom(rel, d, n - 1) : d \in next})

\* the requests of pass p
RequestsOf(p) == {k \in LogIdx : log[k].pass = p}

\* the update_object invocations of pass p
InvocationsOf(p) == {n \in 1..Len(calls) : calls[n].pass = p}

\* the run is over: update_instance returned or the process was ended
RunOver == pc \in {"done", "aborted"}

\* C38: with an acyclic declared dependency relation the run comes to its
\* end, with every update_object call returned unless it was aborted; a
\* pass makes a bounded number of invocations and requests; the call stack
\* is a chain of declared dependencies, never deeper than the longest chain
\* from the type of the top-level call; and a type enters the resolved set
\* only when the loop over its instances is over.
C38_PassTerminates ==
    /\ <>RunOver
    /\ [](pc = "done" => stack = <<>>)
    /\ [](\A p \in 1..3 :
             /\ Cardinality(InvocationsOf(p)) <= 2 * Cardinality(Types)
             /\ Cardinality(RequestsOf(p)) <= 2 * Cardinality(Insts))
    /\ [](stack # <<>> =>
             /\ Len(stack) <= 1 + ChainFrom(declared, stack[1].cls, Cardinality(Types))
             /\ \A n \in 1..Len(stack) - 1 :
                  <<stack[n].cls, stack[n + 1].cls>> \in declared)
    /\ [][resolved_dependencies' # resolved_dependencies /\ pc = "run" /\ stack # <<>>
             => /\ resolved_dependencies' = resolved_dependencies \cup {TopFrame.cls}
                /\ TopFrame.idx > Len(get_all_items[TopFrame.cls])]_vars

C38_Witness ==
    /\ pc = "done"
    /\ ChainFrom(declared, "NBDevice", Cardinality(Types)) = 2
    /\ \E n \in 1..Len(calls) : calls[n].depth = 3
    /\ \E p \in 1..3 : Cardinality(InvocationsOf(p)) > Cardinality(Types)
    /\ log # <<>>

\* the load was ended by do_error_exit
LoadAborted == pc = "aborted" /\ fetches # <<>>

\* C39: a load ended by a fatal status, by the last failed attempt of a
\* request or by a response without results, in the full, the brief or the
\* delta fetch, leaves the cache file of the class as it was before the load
\* and adds no record of the class to the inventory.
C39_AbortLeavesCache ==
    LoadAborted =>
        /\ cache_file = cache_start
        /\ inventory = <<>>
        /\ loads = <<>>
        /\ QueriedClass \notin resolved_dependencies

C39_Witness ==
    /\ LoadAborted
    /\ use_caching
    /\ Decodable(cache_start)
    /\ cache_start.writable
    /\ cache_start.content # nb_remote
    /\ Len(fetches) = 2
    /\ fetches[2].kind = "delta"
    /\ fetches[2].status = 200

====
